---- MODULE Spec2Model ----
(***************************************************************************)
(* pybma: the Python binding of the BioModelAnalyzer engine.               *)
(*                                                                         *)
(* Spec      BMAModel instances (core.py) and simulate (simulation.py)     *)
(* SpecTrace bmaTrace_to_dict (utilities.py) on the engine's trace maps    *)
(* SpecStability check_stability (stability.py) on loaded networks         *)
(* SpecUnpack    unpackResult (stability.py) on results of the engine      *)
(* SpecLtl       testQuery (ltl.py) on witnesses of the engine             *)
(* SpecStep      the engine's step for one update set                      *)
(* SpecRange     the engine's range arithmetic, one operator at a time     *)
(* SpecMath      the MathML to formula conversions (sbml.py)               *)
(* SpecLoad      load_sbml_qual (sbml.py) on readable documents            *)
(* SpecExtract   the formula of a transition's function terms (sbml.py)    *)
(* SpecSave      save_bma_to_sbml_qual (sbml.py) and reading the file back *)
(*                                                                         *)
(* Python values: None is the empty tuple <<>> and a value x that may be   *)
(* None is <<x>>; a dict is a function on its key set; a str that the code *)
(* takes apart is the sequence of its characters.                          *)
(***************************************************************************)
EXTENDS Integers, Sequences, FiniteSets, TLC

VARIABLES file, heap, inst, lastRead, lastOp, err, lastSim, trace, flat, call, raw, stab, sbmlIn, sbmlOut,
          sbmlFile

vars == <<file, heap, inst, lastRead, lastOp, err, lastSim, trace, flat, call, raw, stab, sbmlIn, sbmlOut,
          sbmlFile>>

traceVars == <<trace, flat>>

stabVars == <<call, raw, stab>>

sbmlVars == <<sbmlIn, sbmlOut, sbmlFile>>

(* ------------------------------ bounds --------------------------------- *)

MaxSteps == 2

MaxTime == 2

MaxValue == 1

MaxArg == 2

(* --------------------------- Python values ----------------------------- *)

PyNone == <<>>

Some(x) == <<x>>

IsNone(x) == x = <<>>

The(x) == x[1]

EmptyDict == [k \in {} |-> 0]

Range(s) == {s[k] : k \in DOMAIN s}

Max2(a, b) == IF a >= b THEN a ELSE b

Min2(a, b) == IF a <= b THEN a ELSE b

(* --------------------- model files (JSON documents) -------------------- *)

Var(id, name, lo, hi, formula) ==
    [Id |-> id, Name |-> name, RangeFrom |-> lo, RangeTo |-> hi, Formula |-> formula]

Rel(id, from, to) == [Id |-> id, FromVariable |-> from, ToVariable |-> to]

SelfInhibition ==
    [Name |-> "SelfInhibition",
     Variables |-> << Var(0, "a", 0, 1, "1 - var(0)") >>,
     Relationships |-> << Rel(10, 0, 0) >>]

Follower ==
    [Name |-> "Follower",
     Variables |-> << Var(0, "a", 0, 1, "var(1)"), Var(1, "b", 0, 1, "1") >>,
     Relationships |-> << Rel(10, 1, 0) >>]

Counter ==
    [Name |-> "Counter",
     Variables |-> << Var(1, "b", 0, 2, "var(1) + 1"), Var(0, "a", 0, 2, "var(1)") >>,
     Relationships |-> << Rel(10, 1, 1), Rel(11, 1, 0) >>]

Shifted ==
    [Name |-> "Shifted",
     Variables |-> << Var(0, "a", 1, 2, "var(0)") >>,
     Relationships |-> << Rel(10, 0, 0) >>]

ModelFiles == {SelfInhibition, Follower, Counter, Shifted}

Constant ==
    [Name |-> "Constant",
     Variables |-> << Var(0, "a", 0, 1, "1") >>,
     Relationships |-> << >>]

Cancel ==
    [Name |-> "Cancel",
     Variables |-> << Var(0, "a", 0, 1, "var(0) - var(0)") >>,
     Relationships |-> << Rel(10, 0, 0) >>]

Relay ==
    [Name |-> "Relay",
     Variables |-> << Var(0, "a", 0, 1, "1 - var(0)"), Var(1, "b", 0, 1, "var(0)") >>,
     Relationships |-> << Rel(10, 0, 0), Rel(11, 0, 1) >>]

StabilityFiles == ModelFiles \cup {Constant, Cancel, Relay}

Gate ==
    [Name |-> "Gate",
     Variables |-> << Var(0, "a", 0, 2, "var(0)"), Var(1, "b", 0, 1, "var(0) * var(1)") >>,
     Relationships |-> << Rel(10, 0, 0), Rel(11, 0, 1), Rel(12, 1, 1) >>]

Product ==
    [Name |-> "Product",
     Variables |-> << Var(0, "a", 0, 1, "1 - var(0)"), Var(1, "b", 0, 2, "var(0) * var(1)") >>,
     Relationships |-> << Rel(10, 0, 0), Rel(11, 1, 1), Rel(12, 0, 1) >>]

SaveFiles == StabilityFiles \cup {Gate, Product}

KnockoutIds == {0, 7}

KnockoutFormulas == {"0", "1"}

(* ------------------- engine: formulas (Expr, spec §4.2) ---------------- *)

Const(n) == [op |-> "const", n |-> n]

VarRef(id) == [op |-> "var", id |-> id]

Bin(op, l, r) == [op |-> op, l |-> l, r |-> r]

Unary(op, l) == [op |-> op, l |-> l]

ParseFormula(text) ==
    CASE text = "0" -> Const(0)
      [] text = "1" -> Const(1)
      [] text = "var(0)" -> VarRef(0)
      [] text = "var(1)" -> VarRef(1)
      [] text = "1 - var(0)" -> Bin("minus", Const(1), VarRef(0))
      [] text = "var(1) + 1" -> Bin("plus", VarRef(1), Const(1))
      [] text = "var(0) - var(0)" -> Bin("minus", VarRef(0), VarRef(0))
      [] text = "var(0) * var(1)" -> Bin("times", VarRef(0), VarRef(1))

Ok(v) == [ok |-> TRUE, v |-> v]

Fail == [ok |-> FALSE, v |-> 0]

RECURSIVE Eval(_, _)
Eval(e, state) ==
    CASE e.op = "const" -> Ok(e.n)
      [] e.op = "var" -> IF e.id \in DOMAIN state THEN Ok(state[e.id]) ELSE Fail
      [] e.op = "neg" -> IF Eval(e.l, state).ok THEN Ok(0 - Eval(e.l, state).v) ELSE Fail
      [] e.op \in {"ceil", "floor"} -> Eval(e.l, state)
      [] OTHER ->
            LET l == Eval(e.l, state)
                r == Eval(e.r, state)
            IN  IF ~l.ok \/ ~r.ok THEN Fail
                ELSE CASE e.op = "plus" -> Ok(l.v + r.v)
                       [] e.op = "minus" -> Ok(l.v - r.v)
                       [] e.op = "min" -> Ok(Min2(l.v, r.v))
                       [] e.op = "max" -> Ok(Max2(l.v, r.v))
                       [] e.op = "times" -> Ok(l.v * r.v)

Clamp(x, lo, hi) == IF x < lo THEN lo ELSE IF x > hi THEN hi ELSE x

(* ------------------------ core.py: model_to_qn ------------------------- *)

QN_of_Model(model) ==
    [k \in DOMAIN model.Variables |->
        LET v == model.Variables[k]
        IN  [var |-> v.Id, name |-> v.Name, lo |-> v.RangeFrom, hi |-> v.RangeTo,
             f |-> v.Formula,
             inputs |-> {r.FromVariable : r \in
                            {x \in Range(model.Relationships) : x.ToVariable = v.Id}}]]

model_to_qn(model_data) ==
    LET model == [Name |-> model_data.Name,
                  Variables |-> [k \in DOMAIN model_data.Variables |->
                        LET d == model_data.Variables[k]
                        IN  Var(d.Id, d.Name, d.RangeFrom, d.RangeTo, d.Formula)],
                  Relationships |-> [k \in DOMAIN model_data.Relationships |->
                        LET d == model_data.Relationships[k]
                        IN  Rel(d.Id, d.FromVariable, d.ToVariable)]]
    IN  QN_of_Model(model)

(* --------------------------- core.py: BMAModel ------------------------- *)

Instances == {"m", "c"}

Live == DOMAIN inst

ModelData(i) == heap[inst[i].data]

Op(op, target, id, formula) == [op |-> op, target |-> target, id |-> id, formula |-> formula]

\* BMAModel(model=...): the instance keeps the reference it is given; _qn = None
BMAModel(addr) == [data |-> addr, qn |-> PyNone]

\* a copy that shares the dict instead of copying it
deepcopy_shared(h, addr) == [heap |-> h, addr |-> addr]

\* copy.deepcopy(self.data): a new object holding an equal value
deepcopy(h, addr) ==
    LET new == CHOOSE a \in {"a1", "a2"} : a # addr
    IN  [heap |-> [a \in DOMAIN h \cup {new} |-> h[addr]], addr |-> new]

\* c = copy.deepcopy(m)
DeepCopy ==
    /\ "c" \notin Live
    /\ LET cp == deepcopy(heap, inst["m"].data)
       IN  /\ heap' = cp.heap
           /\ inst' = [i \in Live \cup {"c"} |-> IF i = "c" THEN BMAModel(cp.addr) ELSE inst[i]]
    /\ lastOp' = Op("deepcopy", "m", -1, "")
    /\ err' = "none"
    /\ UNCHANGED <<file, lastRead, lastSim, traceVars, stabVars, sbmlVars>>

\* the qn property: (value returned, value of self._qn afterwards)
qn(i) ==
    IF IsNone(inst[i].qn) THEN Some(model_to_qn(ModelData(i))) ELSE inst[i].qn

ReadQn(i) ==
    /\ i \in Live
    /\ inst' = [inst EXCEPT ![i].qn = qn(i)]
    /\ lastRead' = qn(i)
    /\ lastOp' = Op("qn", i, -1, "")
    /\ err' = "none"
    /\ UNCHANGED <<file, heap, lastSim, traceVars, stabVars, sbmlVars>>

refresh_qn(i) == Some(model_to_qn(ModelData(i)))

RefreshQn(i) ==
    /\ i \in Live
    /\ inst' = [inst EXCEPT ![i].qn = refresh_qn(i)]
    /\ lastRead' = refresh_qn(i)
    /\ lastOp' = Op("refresh_qn", i, -1, "")
    /\ err' = "none"
    /\ UNCHANGED <<file, heap, lastSim, traceVars, stabVars, sbmlVars>>

\* the loop of knockout_variable: the position of the last variable whose Id
\* is variable_index, None when there is none (positions count from 1 here)
\* the id taken for the position in the list
true_index_positional(data, variable_index) ==
    IF variable_index + 1 \in DOMAIN data.Variables THEN Some(variable_index + 1) ELSE PyNone

true_index(data, variable_index) ==
    LET hits == {k \in DOMAIN data.Variables : data.Variables[k].Id = variable_index}
    IN  IF hits = {} THEN PyNone
        ELSE Some(CHOOSE k \in hits : \A j \in hits : j <= k)

\* the formula written to a copy of the variable, the model left as it was
set_formula_lost(data, k, formula) == data

set_formula(data, k, formula) == [data EXCEPT !.Variables[k].Formula = formula]

\* the cache kept across a knockout
invalidated_not(q) == q

\* self._qn after a knockout that reached line 172
invalidated(q) == PyNone

\* the cache dropped before the variable is looked up
knockout_variable_invalidating_first(i, variable_index, formula) ==
    /\ i \in Live
    /\ LET ti == true_index(ModelData(i), variable_index)
       IN  IF IsNone(ti)
           THEN /\ err' = "TypeError"
                /\ inst' = [inst EXCEPT ![i].qn = invalidated(@)]
                /\ UNCHANGED heap
           ELSE /\ heap' = [heap EXCEPT ![inst[i].data] = set_formula(@, The(ti), formula)]
                /\ inst' = [inst EXCEPT ![i].qn = invalidated(@)]
                /\ err' = "none"
    /\ lastOp' = Op("knockout_variable", i, variable_index, formula)
    /\ UNCHANGED <<file, lastRead, lastSim, traceVars, stabVars, sbmlVars>>

knockout_variable(i, variable_index, formula) ==
    /\ i \in Live
    /\ LET ti == true_index(ModelData(i), variable_index)
       IN  IF IsNone(ti)
           THEN \* list[None] raises TypeError before anything is written
                /\ err' = "TypeError"
                /\ UNCHANGED <<heap, inst>>
           ELSE /\ heap' = [heap EXCEPT ![inst[i].data] = set_formula(@, The(ti), formula)]
                /\ inst' = [inst EXCEPT ![i].qn = invalidated(@)]
                /\ err' = "none"
    /\ lastOp' = Op("knockout_variable", i, variable_index, formula)
    /\ UNCHANGED <<file, lastRead, lastSim, traceVars, stabVars, sbmlVars>>

(* ------------- engine: Simulate.simulate_many (spec §4.4) -------------- *)

NodeOf(q, v) == q[CHOOSE k \in DOMAIN q : q[k].var = v]

QnVars(q) == {q[k].var : k \in DOMAIN q}

\* one synchronous step: every formula is read against the same state
Tick(q, state) ==
    LET target == [v \in QnVars(q) |-> Eval(ParseFormula(NodeOf(q, v).f), state)]
    IN  IF \E v \in QnVars(q) : ~target[v].ok THEN Fail
        ELSE Ok([v \in QnVars(q) |-> Clamp(target[v].v, NodeOf(q, v).lo, NodeOf(q, v).hi)])

\* the trace of steps+1 states that starts with the state it is given
RECURSIVE simulate_many(_, _, _)
simulate_many(q, t0, steps) ==
    IF steps = 0 THEN Ok(<<t0>>)
    ELSE LET next == Tick(q, t0)
         IN  IF ~next.ok THEN Fail
             ELSE LET rest == simulate_many(q, next.v, steps - 1)
                  IN  IF ~rest.ok THEN Fail ELSE Ok(<<t0>> \o rest.v)

(* ------------------------ simulation.py: simulate ---------------------- *)

\* System.Int32(x) boxes x; every value of the model is far inside 32 bits
Int32(x) == x

python_dict_to_fsharp_map(d) ==
    IF DOMAIN d = {} THEN EmptyDict ELSE [k \in {Int32(j) : j \in DOMAIN d} |-> Int32(d[k])]

\* lines 98-105: t0 is filled only when no initial state is passed
simulate_t0(variables, initial_values) ==
    LET t0 == IF IsNone(initial_values)
              THEN [v \in Range(variables) |-> Int32(0)]
              ELSE EmptyDict
    IN  python_dict_to_fsharp_map(t0)

Raised(exc, t0) == [exc |-> exc, value |-> EmptyDict, t0 |-> t0]

\* the rows filled from the states after the first one only
simulate_result_tail(variables, tr) ==
    [exc |-> "none",
     value |-> [key \in DOMAIN tr[1] |-> [t \in 1..(Len(tr) - 1) |-> tr[t + 1][key]]],
     t0 |-> tr[1]]

\* the row of the variable at list position key stored under key
simulate_result_by_position(variables, tr) ==
    [exc |-> "none",
     value |-> [key \in DOMAIN tr[1] |->
                    [t \in DOMAIN tr |-> tr[t][variables[1 + (key % Len(variables))]]]],
     t0 |-> tr[1]]

\* lines 110-119: one list per key of the first state, filled variable by variable
simulate_result(variables, tr) ==
    LET keys == DOMAIN tr[1]
    IN  IF \E k \in DOMAIN variables :
              variables[k] \notin keys \/ \E t \in DOMAIN tr : variables[k] \notin DOMAIN tr[t]
        THEN Raised("KeyError", tr[1])
        ELSE [exc |-> "none",
              value |-> [key \in keys |->
                            IF key \in Range(variables)
                            THEN [t \in DOMAIN tr |-> tr[t][key]]
                            ELSE <<>>],
              t0 |-> tr[1]]

simulate(q, steps, initial_values) ==
    LET variables == [k \in DOMAIN q |-> q[k].var]
        t0 == simulate_t0(variables, initial_values)
        ftrace == simulate_many(q, t0, steps)
    IN  IF ~ftrace.ok THEN Raised("EvaluationError", t0)
        ELSE simulate_result(variables, ftrace.v)

\* the initial states a caller passes for the QN it holds: none, or all ones
InitialValues(held) ==
    IF IsNone(held) THEN {} ELSE {PyNone, Some([v \in QnVars(The(held)) |-> 1])}

\* simulate(qn, steps, initial_values) on the QN the caller last obtained
Simulate(steps, initial_values) ==
    /\ ~IsNone(lastRead)
    /\ LET r == simulate(The(lastRead), steps, initial_values)
       IN  /\ lastSim' = Some([qn |-> The(lastRead), steps |-> steps, initial |-> initial_values,
                               t0 |-> r.t0, exc |-> r.exc, value |-> r.value])
           /\ err' = r.exc
    /\ lastOp' = Op("simulate", "-", -1, "")
    /\ UNCHANGED <<file, heap, inst, lastRead, traceVars, stabVars, sbmlVars>>

(* ------------- engine: counterexample maps ("var^time" keys) ----------- *)

TraceVarIds == {0, 10}

Digit(d) ==
    CASE d = 0 -> "0" [] d = 1 -> "1" [] d = 2 -> "2" [] d = 3 -> "3" [] d = 4 -> "4"
      [] d = 5 -> "5" [] d = 6 -> "6" [] d = 7 -> "7" [] d = 8 -> "8" [] d = 9 -> "9"

RECURSIVE IntToStr(_)
IntToStr(n) == IF n < 10 THEN <<Digit(n)>> ELSE IntToStr(n \div 10) \o <<Digit(n % 10)>>

EngineKey(v, t) == IntToStr(v) \o <<"^">> \o IntToStr(t)

\* the maps the engine can hand over: every cell (v,t) absent (-1) or a value
EngineMaps ==
    {[k \in {EngineKey(c[1], c[2]) : c \in {d \in DOMAIN g : g[d] >= 0}} |->
        g[CHOOSE c \in DOMAIN g : EngineKey(c[1], c[2]) = k]]
     : g \in [TraceVarIds \X (0..MaxTime) -> -1..MaxValue]}

(* ------------------ stability.py: _fsharp_map_to_python ---------------- *)

DigitValue(c) ==
    CASE c = "0" -> 0 [] c = "1" -> 1 [] c = "2" -> 2 [] c = "3" -> 3 [] c = "4" -> 4
      [] c = "5" -> 5 [] c = "6" -> 6 [] c = "7" -> 7 [] c = "8" -> 8 [] c = "9" -> 9
      [] OTHER -> -1

\* int(s) of a str of decimal digits; ValueError otherwise
RECURSIVE PyInt(_)
PyInt(s) ==
    IF s = <<>> \/ \E k \in DOMAIN s : DigitValue(s[k]) < 0 THEN Fail
    ELSE IF Len(s) = 1 THEN Ok(DigitValue(s[1]))
    ELSE Ok(10 * PyInt(SubSeq(s, 1, Len(s) - 1)).v + DigitValue(s[Len(s)]))

\* keys become int where int(key) works and stay str otherwise; values are ints
fsharp_map_to_python(fsharp_map) ==
    LET conv(k) == IF PyInt(k).ok THEN PyInt(k).v ELSE k
    IN  [k \in {conv(j) : j \in DOMAIN fsharp_map} |->
            fsharp_map[CHOOSE j \in DOMAIN fsharp_map : conv(j) = k]]

(* ---------------------- utilities.py: bmaTrace_to_dict ----------------- *)

\* s.split(sep) for a one-character sep
RECURSIVE Split(_, _)
Split(s, sep) ==
    IF \A k \in DOMAIN s : s[k] # sep THEN <<s>>
    ELSE LET at == CHOOSE k \in DOMAIN s : s[k] = sep /\ \A j \in 1..(k - 1) : s[j] # sep
         IN  <<SubSeq(s, 1, at - 1)>> \o Split(SubSeq(s, at + 1, Len(s)), sep)

key_time(key) == PyInt(Split(key, "^")[2]).v

key_var(key) == PyInt(Split(key, "^")[1]).v

\* the number of different times instead of the largest time + 1
trace_timepoints_count(tr) == Cardinality({key_time(k) : k \in DOMAIN tr})

\* lines 2-8: one more than the largest time of a key, 0 for no key
trace_timepoints(tr) ==
    IF DOMAIN tr = {} THEN 0
    ELSE 1 + CHOOSE t \in {key_time(k) : k \in DOMAIN tr} : \A k \in DOMAIN tr : key_time(k) <= t

\* rows that start as zeros
empty_row_zero(timepoints) == [i \in 1..timepoints |-> Some(0)]

\* line 12: the row a variable starts with
empty_row(timepoints) == [i \in 1..timepoints |-> PyNone]

\* cells are None (<<>>) or a value <<x>>; list position time is time+1 here
bmaTrace_to_dict(tr) ==
    LET timepoints == trace_timepoints(tr)
        variables == {key_var(k) : k \in DOMAIN tr}
        keysOf(v, i) == {k \in DOMAIN tr : key_var(k) = v /\ key_time(k) + 1 = i}
    IN  IF \E k \in DOMAIN tr : key_time(k) >= timepoints
        THEN [exc |-> "IndexError", value |-> EmptyDict]
        ELSE [exc |-> "none",
              value |-> [v \in variables |->
                            [i \in 1..timepoints |->
                                IF keysOf(v, i) = {} THEN empty_row(timepoints)[i]
                                ELSE Some(tr[CHOOSE k \in keysOf(v, i) : TRUE])]]]

\* bmaTrace_to_dict(_fsharp_map_to_python(cex.Item)), as unpackCex calls it
BmaTraceToDict ==
    /\ IsNone(flat)
    /\ flat' = Some(bmaTrace_to_dict(trace))
    /\ UNCHANGED <<file, heap, inst, lastRead, lastOp, err, lastSim, trace, stabVars, sbmlVars>>

(* ------------ engine: Stabilize.stabilization_prover (spec §4.5) ------- *)

\* range evaluation of a formula: sound integer bounds (spec §4.1, §4.2)
\* a / b rounded down and rounded up, b not 0
FloorDiv(a, b) == IF b > 0 THEN a \div b ELSE (0 - a) \div (0 - b)

CeilDiv(a, b) == 0 - FloorDiv(0 - a, b)

RangeOperators == {"plus", "minus", "times", "div", "min", "max", "floor", "ceil"}

\* the value of one operator on integers; a quotient is given with both of
\* its roundings, the enclosing floor or ceil picks one
ConcreteOp(op, a, b) ==
    CASE op = "plus" -> {a + b}
      [] op = "minus" -> {a - b}
      [] op = "times" -> {a * b}
      [] op = "div" -> {FloorDiv(a, b), CeilDiv(a, b)}
      [] op = "min" -> {Min2(a, b)}
      [] op = "max" -> {Max2(a, b)}
      [] op \in {"floor", "ceil"} -> {a}

SetMin(S) == CHOOSE x \in S : \A y \in S : x <= y

SetMax(S) == CHOOSE x \in S : \A y \in S : x >= y

\* products and quotients taken at the ends of the intervals only: the ends
\* of the same side
RangeOp_same_ends(op, l, r) ==
    CASE op = "plus" -> <<l[1] + r[1], l[2] + r[2]>>
      [] op = "minus" -> <<l[1] - r[2], l[2] - r[1]>>
      [] op = "times" -> <<Min2(l[1] * r[1], l[2] * r[2]), Max2(l[1] * r[1], l[2] * r[2])>>
      [] op = "div" ->
            <<Min2(FloorDiv(l[1], r[1]), FloorDiv(l[2], r[2])),
              Max2(CeilDiv(l[1], r[1]), CeilDiv(l[2], r[2]))>>
      [] op = "min" -> <<Min2(l[1], r[1]), Min2(l[2], r[2])>>
      [] op = "max" -> <<Max2(l[1], r[1]), Max2(l[2], r[2])>>
      [] op \in {"floor", "ceil"} -> l

\* spec §4.1: bounds of one operator on two intervals <<lo, hi>>; the divisor
\* interval does not contain 0
RangeOp(op, l, r) ==
    LET ends == {<<x, y>> : x \in {l[1], l[2]}, y \in {r[1], r[2]}}
    IN  CASE op = "plus" -> <<l[1] + r[1], l[2] + r[2]>>
          [] op = "minus" -> <<l[1] - r[2], l[2] - r[1]>>
          [] op = "times" -> <<SetMin({e[1] * e[2] : e \in ends}), SetMax({e[1] * e[2] : e \in ends})>>
          [] op = "div" ->
                <<SetMin({FloorDiv(e[1], e[2]) : e \in ends}),
                  SetMax({CeilDiv(e[1], e[2]) : e \in ends})>>
          [] op = "min" -> <<Min2(l[1], r[1]), Min2(l[2], r[2])>>
          [] op = "max" -> <<Max2(l[1], r[1]), Max2(l[2], r[2])>>
          [] op \in {"floor", "ceil"} -> l

\* "DivisionByZero" for a divisor interval with 0 in it
RangeArithmetic(op, l, r) ==
    IF op = "div" /\ r[1] <= 0 /\ 0 <= r[2]
    THEN [exc |-> "DivisionByZero", range |-> <<0, 0>>]
    ELSE [exc |-> "none", range |-> RangeOp(op, l, r)]

RECURSIVE EvalRange(_, _)
EvalRange(e, ranges) ==
    CASE e.op = "const" -> <<e.n, e.n>>
      [] e.op = "var" -> ranges[e.id]
      [] OTHER ->
            \* the ranges of both operands, each computed once
            CHOOSE x \in {RangeOp(e.op, a[1], a[2]) :
                              a \in {<<EvalRange(e.l, ranges), EvalRange(e.r, ranges)>>}} : TRUE

DeclaredRanges(q) == [v \in QnVars(q) |-> <<NodeOf(q, v).lo, NodeOf(q, v).hi>>]

\* one tightening round: every variable's formula range-evaluated against the
\* ranges the round starts with, clamped, and intersected with its old range
TightenRound(q, ranges) ==
    [v \in QnVars(q) |->
        LET n == NodeOf(q, v)
            c == EvalRange(ParseFormula(n.f), ranges)
        IN  <<Max2(Clamp(c[1], n.lo, n.hi), ranges[v][1]),
              Min2(Clamp(c[2], n.lo, n.hi), ranges[v][2])>>]

\* the history: the range map of every round, from the declared ranges (round
\* 0) to the first map that a further round leaves as it is
RECURSIVE TightenHistory(_, _, _)
TightenHistory(q, ranges, k) ==
    LET next == TightenRound(q, ranges)
    IN  <<[Item1 |-> k,
           Item2 |-> [v \in DOMAIN ranges |-> [Item1 |-> ranges[v][1], Item2 |-> ranges[v][2]]]]>> \o
        (IF next = ranges THEN <<>> ELSE TightenHistory(q, next, k + 1))

Singletons(ranges) == \A v \in DOMAIN ranges : ranges[v][1] = ranges[v][2]

Box(ranges) ==
    LET lo == CHOOSE x \in {ranges[v][1] : v \in DOMAIN ranges} :
                \A v \in DOMAIN ranges : x <= ranges[v][1]
        hi == CHOOSE x \in {ranges[v][2] : v \in DOMAIN ranges} :
                \A v \in DOMAIN ranges : ranges[v][2] <= x
    IN  {s \in [DOMAIN ranges -> lo..hi] : \A v \in DOMAIN ranges :
            ranges[v][1] <= s[v] /\ s[v] <= ranges[v][2]}

\* the states one step leads to: the synchronous successor, or under
\* asynchronous update one successor per non-empty update set
StepOn_every_variable(q, s, U) == [v \in DOMAIN s |-> Tick(q, s).v[v]]

StepOn(q, s, U) == [v \in DOMAIN s |-> IF v \in U THEN Tick(q, s).v[v] ELSE s[v]]

Successors(q, s, concurrency) ==
    IF concurrency = "Synchronous" THEN {StepOn(q, s, DOMAIN s)}
    ELSE {StepOn(q, s, U) : U \in (SUBSET DOMAIN s) \ {{}}}

\* ascending per-variable value order, lowest variable id most significant
RECURSIVE Rank(_, _)
Rank(s, ids) ==
    IF ids = {} THEN 0
    ELSE LET v == CHOOSE x \in ids : \A y \in ids : y <= x
         IN  s[v] + 4 * Rank(s, ids \ {v})

Least(S) == CHOOSE s \in S : \A t \in S : Rank(s, DOMAIN s) <= Rank(t, DOMAIN t)

\* depth-first search for a repeating state, the candidates in ascending
\* order: a frame holds the path walked so far and the states still to try
\* after it
Frame(path, todo) == [path |-> path, todo |-> todo]

Top(stack) == stack[Len(stack)]

Candidate(stack) == Least(Top(stack).todo)

\* the candidate is already on the path: a state repeats
Repeats(stack) ==
    Top(stack).todo # {} /\ \E k \in DOMAIN Top(stack).path : Top(stack).path[k] = Candidate(stack)

\* the path from the first occurrence of the repeated state to its repetition
CycleOf(stack) ==
    LET path == Top(stack).path
        first == CHOOSE k \in DOMAIN path : path[k] = Candidate(stack)
    IN  Append(SubSeq(path, first, Len(path)), Candidate(stack))

\* give up a frame with nothing left to try, else walk on to the candidate
Advance(q, concurrency, stack) ==
    IF Top(stack).todo = {} THEN SubSeq(stack, 1, Len(stack) - 1)
    ELSE [stack EXCEPT ![Len(stack)].todo = @ \ {Candidate(stack)}]
         \o <<Frame(Append(Top(stack).path, Candidate(stack)),
                    Successors(q, Candidate(stack), concurrency) \ {Candidate(stack)})>>

\* the first cycle found, <<>> when the search ends without one
RECURSIVE FindCycle(_, _, _)
FindCycle(q, concurrency, stack) ==
    IF stack = <<>> THEN <<>>
    ELSE IF Repeats(stack) THEN CycleOf(stack)
    ELSE FindCycle(q, concurrency, Advance(q, concurrency, stack))

SearchCycle(q, concurrency, starts) == FindCycle(q, concurrency, <<Frame(<<>>, starts)>>)

Fixpoints(q, box) == {s \in box : StepOn(q, s, DOMAIN s) = s}

\* a trace as the engine hands it over: "var^time" -> value
TraceMap(states) ==
    [k \in {EngineKey(v, t - 1) : v \in DOMAIN states[1], t \in DOMAIN states} |->
        LET c == CHOOSE x \in (DOMAIN states[1]) \X (DOMAIN states) :
                    EngineKey(x[1], x[2] - 1) = k
        IN  states[c[2]][c[1]]]

\* the first witness among the residual ranges: a cycle, else two different
\* fixed points; none when the remaining uncertainty is benign
FindCex(q, ranges, concurrency) ==
    LET cyc == SearchCycle(q, concurrency, Box(ranges))
        fix == Fixpoints(q, Box(ranges))
        f1 == Least(fix)
        f2 == Least(fix \ {f1})
    IN  IF cyc # <<>> THEN Some([tag |-> "CExCycle", Item |-> TraceMap(cyc)])
        ELSE IF Cardinality(fix) >= 2
        THEN Some([tag |-> "CExBifurcation",
                   Item1 |-> TraceMap(<<f1>>), Item2 |-> TraceMap(<<f2>>)])
        ELSE PyNone

\* (stability_result, counterexample option)
stabilization_prover(q, no_sat, concurrency) ==
    LET history == TightenHistory(q, DeclaredRanges(q), 0)
        last == history[Len(history)].Item2
        final == [v \in DOMAIN last |-> <<last[v].Item1, last[v].Item2>>]
        cex == IF Singletons(final) THEN PyNone ELSE FindCex(q, final, concurrency)
    IN  IF IsNone(cex)
        THEN [Item1 |-> [tag |-> "SRStabilizing", Item |-> Some(history)], Item2 |-> PyNone]
        ELSE [Item1 |-> [tag |-> "SRNotStabilizing", Item |-> Some(history)], Item2 |-> cex]

(* ------------- engine: results handed to unpackResult ------------------- *)

\* the two cases of stability_result, and one that is neither
ResultTags == {"SRStabilizing", "SRNotStabilizing", "SRInconclusive"}

RawHistories ==
    {PyNone} \cup {Some(TightenHistory(model_to_qn(f), DeclaredRanges(model_to_qn(f)), 0)) :
                        f \in StabilityFiles}

CexMaps == {m \in EngineMaps : DOMAIN m \subseteq {EngineKey(0, t) : t \in 0..MaxTime}}

FixpointMaps == {m \in CexMaps : DOMAIN m \subseteq {EngineKey(0, 0)}}

RawCex ==
    {PyNone}
    \cup {Some([tag |-> t, Item |-> m]) :
            t \in {"CExCycle", "CExFixpoint", "CExEndComponent", "CExUnknown"}, m \in CexMaps}
    \cup {Some([tag |-> "CExBifurcation", Item1 |-> m, Item2 |-> n]) :
            m \in FixpointMaps, n \in FixpointMaps}

RawResults ==
    {[Item1 |-> [tag |-> t, Item |-> h], Item2 |-> c] :
        t \in ResultTags, h \in RawHistories, c \in RawCex}

(* ------------------------- stability.py --------------------------------- *)

\* the list back to front
fsharp_list_to_python_reversed(fsharp_list) ==
    IF IsNone(fsharp_list) THEN <<>>
    ELSE [k \in DOMAIN The(fsharp_list) |-> The(fsharp_list)[Len(The(fsharp_list)) + 1 - k]]

fsharp_list_to_python(fsharp_list) ==
    IF IsNone(fsharp_list) THEN <<>> ELSE The(fsharp_list)

timepoint_to_python_lo_only(timepoint) ==
    LET range == timepoint.Item2
    IN  <<timepoint.Item1, [key \in DOMAIN range |-> <<range[key].Item1, range[key].Item1>>]>>

timepoint_to_python(timepoint) ==
    LET time == timepoint.Item1
        range == timepoint.Item2
    IN  <<time, [key \in DOMAIN range |-> <<range[key].Item1, range[key].Item2>>]>>

\* stable for every result that is not a refutation
unpackProof_stable_unless_refuted(result) ==
    LET l == fsharp_list_to_python(result.Item)
    IN  [stable |-> (result.tag # "SRNotStabilizing"),
         history |-> [k \in DOMAIN l |-> timepoint_to_python(l[k])]]

\* the history without its last round
unpackProof_drops_last(result) ==
    LET l == fsharp_list_to_python(result.Item)
    IN  [stable |-> (result.tag = "SRStabilizing"),
         history |-> [k \in 1..(Len(l) - 1) |-> timepoint_to_python(l[k])]]

unpackProof(result) ==
    LET name == result.tag
        rawHistory == result.Item
        l == fsharp_list_to_python(rawHistory)
    IN  [stable |-> (name = "SRStabilizing"),
         history |-> [k \in DOMAIN l |-> timepoint_to_python(l[k])]]

\* the two traces of a bifurcation the other way round
unpackCex_swapped(result) ==
    IF IsNone(result) THEN [exc |-> "none", value |-> PyNone]
    ELSE LET cex == The(result)
             flat1(m) == bmaTrace_to_dict(fsharp_map_to_python(m)).value
         IN  [exc |-> "none",
              value |-> Some([Result |-> cex.tag,
                              Example |->
                                IF cex.tag \in {"CExCycle", "CExFixpoint", "CExEndComponent"}
                                THEN Some(flat1(cex.Item))
                                ELSE IF cex.tag = "CExBifurcation"
                                THEN Some(<<flat1(cex.Item2), flat1(cex.Item1)>>)
                                ELSE PyNone])]

\* the tag alone, the trace left out
unpackCex_without_example(result) ==
    IF IsNone(result) THEN [exc |-> "none", value |-> PyNone]
    ELSE [exc |-> "none", value |-> Some([Result |-> The(result).tag, Example |-> PyNone])]

\* an exception of bmaTrace_to_dict leaves unpackCex with it
unpackCex(result) ==
    IF IsNone(result) THEN [exc |-> "none", value |-> PyNone]
    ELSE LET cex == The(result)
             t == cex.tag
             flat1(m) == bmaTrace_to_dict(fsharp_map_to_python(m))
             done(sim) == [exc |-> "none", value |-> Some([Result |-> t, Example |-> sim])]
             failed(exc) == [exc |-> exc, value |-> PyNone]
         IN  IF t \in {"CExCycle", "CExFixpoint", "CExEndComponent"}
             THEN IF flat1(cex.Item).exc # "none" THEN failed(flat1(cex.Item).exc)
                  ELSE done(Some(flat1(cex.Item).value))
             ELSE IF t = "CExBifurcation"
             THEN IF flat1(cex.Item1).exc # "none" THEN failed(flat1(cex.Item1).exc)
                  ELSE IF flat1(cex.Item2).exc # "none" THEN failed(flat1(cex.Item2).exc)
                  ELSE done(Some(<<flat1(cex.Item1).value, flat1(cex.Item2).value>>))
             ELSE done(PyNone)

\* the proof alone
unpackResult_proof_only(proofResult) ==
    [exc |-> "none",
     value |-> Some([ProofProgression |-> unpackProof(proofResult.Item1),
                     CounterExample |-> PyNone])]

unpackResult(proofResult) ==
    LET progression == unpackProof(proofResult.Item1)
        cex == unpackCex(proofResult.Item2)
    IN  IF cex.exc # "none" THEN [exc |-> cex.exc, value |-> PyNone]
        ELSE [exc |-> "none",
              value |-> Some([ProofProgression |-> progression, CounterExample |-> cex.value])]

concurrency_always_asynchronous(synchronous) == "Asynchronous"

concurrency_of(synchronous) ==
    IF synchronous THEN "Synchronous" ELSE "Asynchronous"

\* the arguments check_stability hands to the prover: no budget among them
stability_args(q, synchronous) == <<q, FALSE, concurrency_of(synchronous)>>

check_stability(q, synchronous) ==
    LET args == stability_args(q, synchronous)
        result == stabilization_prover(args[1], args[2], args[3])
    IN  [args |-> args, result |-> result, returned |-> unpackResult(result)]

\* check_stability(model.qn, synchronous) on the network last read
CheckStability(synchronous) ==
    /\ ~IsNone(lastRead)
    /\ LET r == check_stability(The(lastRead), synchronous)
       IN  /\ call' = Some([qn |-> The(lastRead), synchronous |-> synchronous, args |-> r.args])
           /\ raw' = Some(r.result)
           /\ stab' = Some(r.returned)
    /\ UNCHANGED <<file, heap, inst, lastRead, lastOp, err, lastSim, traceVars, sbmlVars>>

\* unpackResult on a result of the engine
UnpackResult ==
    /\ ~IsNone(raw)
    /\ IsNone(stab)
    /\ stab' = Some(unpackResult(The(raw)))
    /\ UNCHANGED <<file, heap, inst, lastRead, lastOp, err, lastSim, traceVars, call, raw, sbmlVars>>

(* --------------- engine: reading a formula text (spec §3) --------------- *)

\* formula texts are sequences of tokens; numbers here have one digit
ParseOk(e, rest) == [ok |-> TRUE, e |-> e, rest |-> rest]

ParseFail == [ok |-> FALSE, e |-> Const(0), rest |-> <<>>]

Expect(ts, tok) == ts # <<>> /\ Head(ts) = tok

RECURSIVE ParseExpr(_)
RECURSIVE ParseExprRest(_, _)
RECURSIVE ParseTerm(_)
RECURSIVE ParseTermRest(_, _)
RECURSIVE ParseUnary(_)
RECURSIVE ParseAtom(_)

\* number | var(n) | (expr) | min(expr, expr) | max(expr, expr) | ceil(expr) | floor(expr)
ParseAtom(ts) ==
    IF ts = <<>> THEN ParseFail
    ELSE LET h == Head(ts)
             t == Tail(ts)
             inner == ParseExpr(Tail(t))
             second == ParseExpr(Tail(inner.rest))
         IN  CASE DigitValue(h) >= 0 -> ParseOk(Const(DigitValue(h)), t)
               [] h = "var" ->
                    IF Len(t) >= 3 /\ t[1] = "(" /\ DigitValue(t[2]) >= 0 /\ t[3] = ")"
                    THEN ParseOk(VarRef(DigitValue(t[2])), SubSeq(t, 4, Len(t)))
                    ELSE ParseFail
               [] h = "(" ->
                    LET r == ParseExpr(t)
                    IN  IF r.ok /\ Expect(r.rest, ")") THEN ParseOk(r.e, Tail(r.rest))
                        ELSE ParseFail
               [] h \in {"min", "max"} ->
                    IF Expect(t, "(") /\ inner.ok /\ Expect(inner.rest, ",")
                       /\ second.ok /\ Expect(second.rest, ")")
                    THEN ParseOk(Bin(h, inner.e, second.e), Tail(second.rest))
                    ELSE ParseFail
               [] h \in {"ceil", "floor"} ->
                    IF Expect(t, "(") /\ inner.ok /\ Expect(inner.rest, ")")
                    THEN ParseOk(Unary(h, inner.e), Tail(inner.rest))
                    ELSE ParseFail
               [] OTHER -> ParseFail

\* - unary | atom
ParseUnary(ts) ==
    IF Expect(ts, "-")
    THEN LET r == ParseUnary(Tail(ts))
         IN  IF r.ok THEN ParseOk(Unary("neg", r.e), r.rest) ELSE ParseFail
    ELSE ParseAtom(ts)

\* unary (* unary)*, to the left
ParseTermRest(left, ts) ==
    IF Expect(ts, "*")
    THEN LET r == ParseUnary(Tail(ts))
         IN  IF r.ok THEN ParseTermRest(Bin("times", left, r.e), r.rest) ELSE ParseFail
    ELSE ParseOk(left, ts)

ParseTerm(ts) ==
    LET r == ParseUnary(ts)
    IN  IF r.ok THEN ParseTermRest(r.e, r.rest) ELSE ParseFail

\* term ((+|-) term)*, to the left
ParseExprRest(left, ts) ==
    IF Expect(ts, "+") \/ Expect(ts, "-")
    THEN LET r == ParseTerm(Tail(ts))
             op == IF Head(ts) = "+" THEN "plus" ELSE "minus"
         IN  IF r.ok THEN ParseExprRest(Bin(op, left, r.e), r.rest) ELSE ParseFail
    ELSE ParseOk(left, ts)

ParseExpr(ts) ==
    LET r == ParseTerm(ts)
    IN  IF r.ok THEN ParseExprRest(r.e, r.rest) ELSE ParseFail

\* the value of a formula text in a state; no value for a text that does not
\* parse to its end
EvalText(ts, state) ==
    LET r == ParseExpr(ts)
    IN  IF r.ok /\ r.rest = <<>> THEN Eval(r.e, state) ELSE Fail

(* ------------------------------ sbml.py --------------------------------- *)

\* str(n) as tokens
PyStr(n) == IF n < 0 THEN <<"-">> \o IntToStr(0 - n) ELSE IntToStr(n)

\* f"var({id})"
VarText(id) == <<"var", "(">> \o PyStr(id) \o <<")">>

Call1(f, x) == <<f, "(">> \o x \o <<")">>

Call2(f, x, y) == <<f, "(">> \o x \o <<",">> \o y \o <<")">>

Paren(x) == <<"(">> \o x \o <<")">>

\* result = operands[0]; for op in operands[1:]: result = f"{f}({result}, {op})"
RECURSIVE Fold(_, _)
Fold(f, operands) ==
    IF Len(operands) = 1 THEN operands[1]
    ELSE Call2(f, Fold(f, SubSeq(operands, 1, Len(operands) - 1)), operands[Len(operands)])

\* sep.join(operands)
RECURSIVE Join(_, _)
Join(sep, operands) ==
    IF Len(operands) = 1 THEN operands[1]
    ELSE Join(sep, SubSeq(operands, 1, Len(operands) - 1)) \o <<sep>> \o operands[Len(operands)]

\* the native reading: a MathML element
Cn(n) == [tag |-> "cn", text |-> n]

Ci(name) == [tag |-> "ci", text |-> name]

Apply(operator, children) == [tag |-> "apply", children |-> <<[tag |-> operator]>> \o children]

\* a > b read as a >= b
relational_gt_as_geq(operator_tag, left, right) ==
    CASE operator_tag = "eq" ->
            Paren(<<"1", "-">> \o Call2("min", <<"1">>,
                Call2("max", Paren(left \o <<"-">> \o right),
                             <<"-">> \o Paren(left \o <<"-">> \o right))))
      [] operator_tag = "neq" ->
            Call2("min", <<"1">>,
                Call2("max", Paren(left \o <<"-">> \o right),
                             <<"-">> \o Paren(left \o <<"-">> \o right)))
      [] operator_tag \in {"gt", "geq"} ->
            Call2("max", <<"0">>, Call1("ceil",
                Call2("min", <<"1">>, Paren(left \o <<"-">> \o right) \o <<"+", "1">>)))
      [] operator_tag = "lt" ->
            Call2("max", <<"0">>, Call2("min", <<"1">>, right \o <<"-">> \o left))
      [] operator_tag = "leq" ->
            Call2("max", <<"0">>, Call1("ceil",
                Call2("min", <<"1">>, Paren(right \o <<"-">> \o left) \o <<"+", "1">>)))

\* lines 169-201: the relational operators
relational(operator_tag, left, right) ==
    LET diff == Paren(left \o <<"-">> \o right)
        abs_diff == Call2("max", diff, <<"-">> \o diff)
    IN  CASE operator_tag = "eq" -> Paren(<<"1", "-">> \o Call2("min", <<"1">>, abs_diff))
          [] operator_tag = "neq" -> Call2("min", <<"1">>, abs_diff)
          [] operator_tag = "gt" ->
                Call2("max", <<"0">>, Call2("min", <<"1">>, left \o <<"-">> \o right))
          [] operator_tag = "geq" ->
                Call2("max", <<"0">>, Call1("ceil",
                    Call2("min", <<"1">>, Paren(left \o <<"-">> \o right) \o <<"+", "1">>)))
          [] operator_tag = "lt" ->
                Call2("max", <<"0">>, Call2("min", <<"1">>, right \o <<"-">> \o left))
          [] operator_tag = "leq" ->
                Call2("max", <<"0">>, Call1("ceil",
                    Call2("min", <<"1">>, Paren(right \o <<"-">> \o left) \o <<"+", "1">>)))

RelationalTags == {"eq", "neq", "gt", "geq", "lt", "leq"}

RECURSIVE convert_mathml_to_bma_arithmetic(_, _)
convert_mathml_to_bma_arithmetic(math_elem, var_id_map) ==
    LET tag == math_elem.tag
        children == math_elem.children
        operator_tag == children[1].tag
        operands == [k \in 1..(Len(children) - 1) |->
                        convert_mathml_to_bma_arithmetic(children[k + 1], var_id_map)]
    IN  CASE tag = "cn" -> PyStr(math_elem.text)
          [] tag = "ci" ->
                IF math_elem.text \in DOMAIN var_id_map THEN VarText(var_id_map[math_elem.text])
                ELSE <<math_elem.text>>
          [] tag = "true" -> <<"1">>
          [] tag = "false" -> <<"0">>
          [] tag = "apply" ->
                IF Len(children) = 0 THEN <<"0">>
                ELSE (CASE operator_tag = "and" ->
                            IF Len(operands) = 0 THEN <<"1">> ELSE Fold("min", operands)
                       [] operator_tag = "or" ->
                            IF Len(operands) = 0 THEN <<"0">> ELSE Fold("max", operands)
                       [] operator_tag = "not" -> Paren(<<"1", "-">> \o operands[1])
                       [] operator_tag \in RelationalTags ->
                            relational(operator_tag, operands[1], operands[2])
                       [] operator_tag = "plus" -> Paren(Join("+", operands))
                       [] operator_tag = "minus" ->
                            IF Len(operands) = 1 THEN Paren(<<"-">> \o operands[1])
                            ELSE Paren(operands[1] \o <<"-">> \o operands[2])
                       [] operator_tag = "times" -> Paren(Join("*", operands)))
          [] tag = "piecewise" ->
                LET pieces == SelectSeq(children,
                                LAMBDA c : c.tag = "piece" /\ Len(c.children) >= 2)
                    others == SelectSeq(children,
                                LAMBDA c : c.tag = "otherwise" /\ Len(c.children) >= 1)
                    terms == [k \in DOMAIN pieces |->
                        Paren(convert_mathml_to_bma_arithmetic(pieces[k].children[2], var_id_map)
                              \o <<"*">> \o
                              convert_mathml_to_bma_arithmetic(pieces[k].children[1], var_id_map))]
                    withOtherwise ==
                        IF others = << >> THEN terms
                        ELSE Append(terms, convert_mathml_to_bma_arithmetic(
                                            others[Len(others)].children[1], var_id_map))
                IN  IF withOtherwise = << >> THEN <<"0">> ELSE Fold("max", withOtherwise)

\* the libsbml reading: an ASTNode
AstInteger(n) == [type |-> "AST_INTEGER", value |-> n]

AstName(name) == [type |-> "AST_NAME", name |-> name]

AstNode(type, children) == [type |-> type, children |-> children]

AstRelationalTypes ==
    {"AST_RELATIONAL_EQ", "AST_RELATIONAL_NEQ", "AST_RELATIONAL_GT", "AST_RELATIONAL_GEQ",
     "AST_RELATIONAL_LT", "AST_RELATIONAL_LEQ"}

\* lines 446-485: the relational operators
ast_relational(node_type, left, right) ==
    LET diff == Paren(left \o <<"-">> \o right)
        abs_diff == Call2("max", diff, <<"-", "1", "*">> \o diff)
    IN  CASE node_type = "AST_RELATIONAL_EQ" ->
                Paren(<<"1", "-">> \o Call2("min", <<"1">>, abs_diff))
          [] node_type = "AST_RELATIONAL_NEQ" -> Call2("min", <<"1">>, abs_diff)
          [] node_type = "AST_RELATIONAL_GT" ->
                Call2("max", <<"0">>, Call2("min", <<"1">>, left \o <<"-">> \o right))
          [] node_type = "AST_RELATIONAL_GEQ" ->
                Call2("max", <<"0">>, Call1("ceil",
                    Call2("min", <<"1">>, Paren(left \o <<"-">> \o right) \o <<"+", "1">>)))
          [] node_type = "AST_RELATIONAL_LT" ->
                Call2("max", <<"0">>, Call2("min", <<"1">>, right \o <<"-">> \o left))
          [] node_type = "AST_RELATIONAL_LEQ" ->
                Call2("max", <<"0">>, Call1("ceil",
                    Call2("min", <<"1">>, Paren(right \o <<"-">> \o left) \o <<"+", "1">>)))

RECURSIVE convert_mathml_ast_to_bma_arithmetic(_, _)
convert_mathml_ast_to_bma_arithmetic(math_ast, var_id_map) ==
    LET node_type == math_ast.type
        num_children == Len(math_ast.children)
        child(i) == convert_mathml_ast_to_bma_arithmetic(math_ast.children[i + 1], var_id_map)
        operands == [k \in 1..num_children |-> child(k - 1)]
    IN  CASE node_type = "AST_INTEGER" -> PyStr(math_ast.value)
          [] node_type = "AST_NAME" ->
                IF math_ast.name \in DOMAIN var_id_map THEN VarText(var_id_map[math_ast.name])
                ELSE <<math_ast.name>>
          [] node_type = "AST_CONSTANT_TRUE" -> <<"1">>
          [] node_type = "AST_CONSTANT_FALSE" -> <<"0">>
          [] node_type = "AST_LOGICAL_AND" ->
                IF num_children = 0 THEN <<"1">> ELSE Fold("min", operands)
          [] node_type = "AST_LOGICAL_OR" ->
                IF num_children = 0 THEN <<"0">> ELSE Fold("max", operands)
          [] node_type = "AST_LOGICAL_NOT" -> Paren(<<"1", "-">> \o child(0))
          [] node_type \in AstRelationalTypes -> ast_relational(node_type, child(0), child(1))
          [] node_type = "AST_PLUS" -> Paren(Join("+", operands))
          [] node_type = "AST_MINUS" ->
                IF num_children = 1 THEN Paren(<<"-">> \o child(0))
                ELSE Paren(child(0) \o <<"-">> \o child(1))
          [] node_type = "AST_TIMES" -> Paren(Join("*", operands))
          [] node_type = "AST_FUNCTION_PIECEWISE" ->
                LET terms == [k \in 1..(num_children \div 2) |->
                                Paren(child(2 * k - 1) \o <<"*">> \o child(2 * k - 2))]
                    withOtherwise == IF num_children % 2 = 1
                                     THEN Append(terms, child(num_children - 1)) ELSE terms
                IN  IF withOtherwise = << >> THEN <<"0">> ELSE Fold("max", withOtherwise)

\* the MathML of  a op b  (not: op a), the operands numbers or the species x, y
MathOperators == RelationalTags \cup {"and", "or", "not"}

MathInputs ==
    [operator : MathOperators, kind : {"cn", "ci"}, a : (0 - MaxArg)..MaxArg, b : (0 - MaxArg)..MaxArg]

SpeciesIds == [n \in {"x", "y"} |-> IF n = "x" THEN 0 ELSE 1]

MathElement(in) ==
    LET left == IF in.kind = "cn" THEN Cn(in.a) ELSE Ci("x")
        right == IF in.kind = "cn" THEN Cn(in.b) ELSE Ci("y")
    IN  Apply(in.operator, IF in.operator = "not" THEN <<left>> ELSE <<left, right>>)

AstTypeOf(operator) ==
    CASE operator = "eq" -> "AST_RELATIONAL_EQ"
      [] operator = "neq" -> "AST_RELATIONAL_NEQ"
      [] operator = "gt" -> "AST_RELATIONAL_GT"
      [] operator = "geq" -> "AST_RELATIONAL_GEQ"
      [] operator = "lt" -> "AST_RELATIONAL_LT"
      [] operator = "leq" -> "AST_RELATIONAL_LEQ"
      [] operator = "and" -> "AST_LOGICAL_AND"
      [] operator = "or" -> "AST_LOGICAL_OR"
      [] operator = "not" -> "AST_LOGICAL_NOT"

MathAst(in) ==
    LET left == IF in.kind = "cn" THEN AstInteger(in.a) ELSE AstName("x")
        right == IF in.kind = "cn" THEN AstInteger(in.b) ELSE AstName("y")
    IN  AstNode(AstTypeOf(in.operator), IF in.operator = "not" THEN <<left>> ELSE <<left, right>>)

\* libsbml reading the MathML of a file into an ASTNode, and writing it back
RECURSIVE readMathML(_)
readMathML(elem) ==
    CASE elem.tag = "cn" -> AstInteger(elem.text)
      [] elem.tag = "ci" -> AstName(elem.text)
      [] elem.tag = "apply" ->
            AstNode(AstTypeOf(elem.children[1].tag),
                    [k \in 1..(Len(elem.children) - 1) |-> readMathML(elem.children[k + 1])])
      [] elem.tag = "piecewise" ->
            LET pieces == SelectSeq(elem.children, LAMBDA c : c.tag = "piece")
                others == SelectSeq(elem.children, LAMBDA c : c.tag = "otherwise")
            IN  AstNode("AST_FUNCTION_PIECEWISE",
                    [k \in 1..(2 * Len(pieces) + Len(others)) |->
                        IF k > 2 * Len(pieces) THEN readMathML(others[1].children[1])
                        ELSE readMathML(pieces[(k + 1) \div 2].children[2 - (k % 2)])])

RECURSIVE writeMathML(_)
writeMathML(math_ast) ==
    CASE math_ast.type = "AST_INTEGER" -> Cn(math_ast.value)
      [] math_ast.type = "AST_NAME" -> Ci(math_ast.name)
      [] OTHER ->
            Apply(CHOOSE operator \in MathOperators : AstTypeOf(operator) = math_ast.type,
                  [k \in DOMAIN math_ast.children |-> writeMathML(math_ast.children[k])])

\* both readers on the same rule
ConvertMath ==
    /\ ~IsNone(sbmlIn)
    /\ IsNone(sbmlOut)
    /\ sbmlOut' = Some([native |-> convert_mathml_to_bma_arithmetic(MathElement(The(sbmlIn)), SpeciesIds),
                        libsbml |-> convert_mathml_ast_to_bma_arithmetic(MathAst(The(sbmlIn)), SpeciesIds)])
    /\ UNCHANGED <<file, heap, inst, lastRead, lastOp, err, lastSim, traceVars, stabVars, sbmlIn, sbmlFile>>

\* ---- SBML-qual documents: what either reader finds in a readable file ----

Species(id, name, maxLevel, initialLevel) ==
    [id |-> id, name |-> name, maxLevel |-> maxLevel, initialLevel |-> initialLevel]

Input(species, sign) == [qualitativeSpecies |-> species, sign |-> sign]

FunctionTerm(resultLevel, math) == [resultLevel |-> resultLevel, math |-> math]

Transition(inputs, outputs, defaultTerm, functionTerms) ==
    [inputs |-> inputs, outputs |-> outputs, defaultTerm |-> defaultTerm,
     functionTerms |-> functionTerms]

SpeciesLists ==
    {<<Species("x", nm, Some(1), il), Species("y", PyNone, ml, PyNone)>> :
        nm \in {PyNone, Some("X")}, il \in {PyNone, Some(1)}, ml \in {Some(1), Some(2)}}

\* at most one transition, of y, with x as its input
TransitionLists ==
    {<< >>} \cup
    {<<Transition(<<Input("x", sign)>>, <<"y">>, d, ft)>> :
        sign \in {"positive", "negative", "dual"},
        d \in {PyNone, Some(0), Some(1)},
        ft \in {<< >>, <<FunctionTerm(1, MathElement([operator |-> "geq", kind |-> "ci", a |-> 0, b |-> 0]))>>}}

SbmlDocs ==
    {[name |-> n, id |-> "m1", species |-> sp, transitions |-> tr] :
        n \in {PyNone, Some("toy")}, sp \in SpeciesLists, tr \in TransitionLists}

\* var_id_map[sbml_id] = index in the list, from 0
var_id_map_of(doc) ==
    [n \in {doc.species[k].id : k \in DOMAIN doc.species} |->
        (CHOOSE k \in DOMAIN doc.species :
            doc.species[k].id = n /\ \A j \in DOMAIN doc.species : doc.species[j].id = n => j <= k) - 1]

\* relationships.append for every input of every transition with a known
\* output, the Id the length of the list so far
RECURSIVE relationships_of(_, _, _, _)
relationships_of(doc, t, j, done) ==
    IF t > Len(doc.transitions) THEN done
    ELSE LET tr == doc.transitions[t]
             ids == var_id_map_of(doc)
         IN  IF tr.outputs = << >> \/ tr.outputs[1] \notin DOMAIN ids
                \/ j > Len(tr.inputs)
             THEN relationships_of(doc, t + 1, 1, done)
             ELSE IF tr.inputs[j].qualitativeSpecies \notin DOMAIN ids
             THEN relationships_of(doc, t, j + 1, done)
             ELSE relationships_of(doc, t, j + 1, Append(done,
                    [Id |-> Len(done),
                     FromVariable |-> ids[tr.inputs[j].qualitativeSpecies],
                     ToVariable |-> ids[tr.outputs[1]],
                     Type |-> IF tr.inputs[j].sign = "negative" THEN "Inhibitor"
                              ELSE "Activator"]))

bma_model(model_name, variables, relationships) ==
    [Model |-> [Name |-> model_name, Variables |-> variables, Relationships |-> relationships],
     Layout |-> [Variables |-> << >>, Containers |-> << >>, AnnotatedGridCells |-> << >>],
     ltl |-> [states |-> << >>, operations |-> << >>]]

\* lines 871-1081: the model the native reader builds
native_bma_model(doc) ==
    LET model_name == IF IsNone(doc.name) THEN doc.id ELSE The(doc.name)
        variables == [k \in DOMAIN doc.species |->
            LET species == doc.species[k]
                range_to == IF IsNone(species.maxLevel) THEN 1 ELSE The(species.maxLevel)
                initial == IF IsNone(species.initialLevel) THEN 0 ELSE The(species.initialLevel)
            IN  [Id |-> k - 1,
                 Name |-> IF IsNone(species.name) THEN species.id ELSE The(species.name),
                 RangeFrom |-> 0, RangeTo |-> range_to, Formula |-> PyStr(initial)]]
    IN  bma_model(model_name, variables, relationships_of(doc, 1, 1, << >>))

\* _load_native ends after building bma_model, without a return statement:
\* the call gives None
load_native(doc) ==
    LET built == native_bma_model(doc)
    IN  [exc |-> "none", value |-> PyNone, called |-> "_load_native"]

\* lines 20-89: the attributes are strings; no formula is None
extract_formula_from_transition(transition, var_id_map) ==
    LET default_result == IF IsNone(transition.defaultTerm) THEN PyNone
                          ELSE Some(PyStr(The(transition.defaultTerm)))
        function_terms == transition.functionTerms
        terms == [i \in DOMAIN function_terms |->
                    Paren(convert_mathml_to_bma_arithmetic(function_terms[i].math, var_id_map)
                          \o <<"*">> \o PyStr(function_terms[i].resultLevel))]
        withDefault == IF ~IsNone(default_result) /\ The(default_result) # <<"0">>
                       THEN Append(terms, The(default_result)) ELSE terms
    IN  IF Len(function_terms) = 0 THEN default_result
        ELSE Some(Fold("max", withDefault))

\* lines 318-371; no formula is None
extract_formula_from_transition_libsbml(transition, var_id_map) ==
    LET default_result == transition.defaultTerm
        fts == transition.functionTerms
        terms == [i \in DOMAIN fts |->
                    Paren(convert_mathml_ast_to_bma_arithmetic(readMathML(fts[i].math), var_id_map)
                          \o <<"*">> \o PyStr(fts[i].resultLevel))]
        withDefault == IF ~IsNone(default_result) /\ The(default_result) # 0
                       THEN Append(terms, PyStr(The(default_result))) ELSE terms
    IN  IF Len(fts) = 0
        THEN (IF IsNone(default_result) THEN PyNone ELSE Some(PyStr(The(default_result))))
        ELSE Some(Fold("max", withDefault))

\* variables[target_var_id]['Formula'] = formula, transition after transition
RECURSIVE with_formulas(_, _, _)
with_formulas(doc, variables, t) ==
    IF t > Len(doc.transitions) THEN variables
    ELSE LET tr == doc.transitions[t]
             ids == var_id_map_of(doc)
             formula == extract_formula_from_transition_libsbml(tr, ids)
         IN  IF tr.outputs = << >> \/ tr.outputs[1] \notin DOMAIN ids \/ IsNone(formula)
             THEN with_formulas(doc, variables, t + 1)
             ELSE with_formulas(doc,
                    [variables EXCEPT ![ids[tr.outputs[1]] + 1].Formula = The(formula)], t + 1)

\* lines 1087-1244, for a document libsbml reads without errors
load_with_libsbml(doc) ==
    LET model_name == IF IsNone(doc.name) THEN doc.id ELSE The(doc.name)
        variables == [k \in DOMAIN doc.species |->
            LET species == doc.species[k]
                initial_level == IF IsNone(species.initialLevel) THEN 0
                                 ELSE The(species.initialLevel)
            IN  [Id |-> k - 1,
                 Name |-> IF IsNone(species.name) THEN species.id ELSE The(species.name),
                 RangeFrom |-> 0, RangeTo |-> The(species.maxLevel),
                 Formula |-> PyStr(initial_level)]]
    IN  [exc |-> "none",
         value |-> Some(bma_model(model_name, with_formulas(doc, variables, 1),
                                  relationships_of(doc, 1, 1, << >>))),
         called |-> "_load_with_libsbml"]

\* use_libsbml is 'auto', True or False
UseLibsbml == {"auto", "True", "False"}

\* 'auto' read as: always the native reader
load_sbml_qual_auto_native(doc, use_libsbml, LIBSBML_AVAILABLE) ==
    LET use == IF use_libsbml = "auto" THEN FALSE ELSE use_libsbml = "True"
    IN  IF use_libsbml # "auto" /\ use /\ ~LIBSBML_AVAILABLE
        THEN [exc |-> "ImportError", value |-> PyNone, called |-> "none"]
        ELSE IF use THEN load_with_libsbml(doc) ELSE load_native(doc)

\* called: the implementation the call went to, "none" when it raised before
load_sbml_qual(doc, use_libsbml, LIBSBML_AVAILABLE) ==
    LET use == IF use_libsbml = "auto" THEN LIBSBML_AVAILABLE ELSE use_libsbml = "True"
    IN  IF use_libsbml # "auto" /\ use /\ ~LIBSBML_AVAILABLE
        THEN [exc |-> "ImportError", value |-> PyNone, called |-> "none"]
        ELSE IF use THEN load_with_libsbml(doc) ELSE load_native(doc)

LoadInputs ==
    [doc : SbmlDocs, use_libsbml : UseLibsbml, LIBSBML_AVAILABLE : BOOLEAN]

LoadSbmlQual ==
    /\ ~IsNone(sbmlIn)
    /\ IsNone(sbmlOut)
    /\ sbmlOut' = Some(load_sbml_qual(The(sbmlIn).doc, The(sbmlIn).use_libsbml,
                                      The(sbmlIn).LIBSBML_AVAILABLE))
    /\ UNCHANGED <<file, heap, inst, lastRead, lastOp, err, lastSim, traceVars, stabVars, sbmlIn, sbmlFile>>

\* ---- function terms and pieces: a condition on x and a level each ----

Piecewise(pieces, otherwise) ==
    [tag |-> "piecewise",
     children |-> [k \in DOMAIN pieces |->
                        [tag |-> "piece", children |-> <<Cn(pieces[k].level), pieces[k].condition>>]]
                  \o (IF IsNone(otherwise) THEN << >>
                      ELSE <<[tag |-> "otherwise", children |-> <<Cn(The(otherwise))>>]>>)]

Levels == 0..(MaxValue + 1)

Conditions == {Apply(operator, <<Ci("x"), Cn(k)>>) : operator \in {"eq", "geq", "lt"}, k \in Levels}

Cases == [condition : Conditions, level : Levels]

\* no, one or two conditioned levels, and the level when no condition holds
ExtractInputs ==
    {[cases |-> cases, default |-> d] :
        cases \in {<< >>} \cup {<<c>> : c \in Cases} \cup {<<c1, c2>> : c1 \in Cases, c2 \in Cases},
        d \in {PyNone} \cup {Some(l) : l \in Levels}}

\* both extractors on the transition of y that carries the cases as function
\* terms, both converters on the piecewise that carries them as pieces
ExtractFormula ==
    /\ ~IsNone(sbmlIn)
    /\ IsNone(sbmlOut)
    /\ LET cases == The(sbmlIn).cases
           transition == Transition(<<Input("x", "positive")>>, <<"y">>, The(sbmlIn).default,
                            [k \in DOMAIN cases |-> FunctionTerm(cases[k].level, cases[k].condition)])
           piecewise == Piecewise(cases, The(sbmlIn).default)
       IN  sbmlOut' = Some(
            [native |-> extract_formula_from_transition(transition, SpeciesIds),
             libsbml |-> extract_formula_from_transition_libsbml(transition, SpeciesIds),
             piecewise_native |-> convert_mathml_to_bma_arithmetic(piecewise, SpeciesIds),
             piecewise_libsbml |->
                convert_mathml_ast_to_bma_arithmetic(readMathML(piecewise), SpeciesIds)])
    /\ UNCHANGED <<file, heap, inst, lastRead, lastOp, err, lastSim, traceVars, stabVars, sbmlIn, sbmlFile>>

(* ------------------ sbml.py: save_bma_to_sbml_qual --------------------- *)

\* f"var_{var_id}"
species_id(var_id) ==
    CASE var_id = 0 -> "var_0"
      [] var_id = 1 -> "var_1"
      [] var_id = 2 -> "var_2"

\* str.isdigit and int, on the formulas of the model files
isdigit(formula) == formula \in {"0", "1"}

int(formula) == IF formula = "0" THEN 0 ELSE 1

\* itertools.product: the rightmost range runs fastest
RECURSIVE product_size(_, _)
product_size(input_ranges, i) ==
    IF i > Len(input_ranges) THEN 1
    ELSE Len(input_ranges[i]) * product_size(input_ranges, i + 1)

product(input_ranges) ==
    [k \in 1..product_size(input_ranges, 1) |->
        [i \in DOMAIN input_ranges |->
            input_ranges[i][(((k - 1) \div product_size(input_ranges, i + 1))
                             % Len(input_ranges[i])) + 1]]]

\* lines 1614-1632: qn[target_var_id] is the node at that position of the list
evaluate_formula_at_state(q, target_var_id, state) ==
    Eval(ParseFormula(q[target_var_id + 1].f), state).v

\* lines 1443-1508: the rows of the table in the order they are written
generate_truth_table(q, target_var_id, input_var_ids, variables) ==
    LET ids == IF input_var_ids = << >> THEN <<target_var_id>> ELSE input_var_ids
        var_ranges == [id \in {variables[k].Id : k \in DOMAIN variables} |->
            LET var == variables[CHOOSE k \in DOMAIN variables : variables[k].Id = id
                                    /\ \A j \in DOMAIN variables : variables[j].Id = id => j <= k]
            IN  [n \in 1..(var.RangeTo - var.RangeFrom + 1) |-> var.RangeFrom + n - 1]]
        rows == product([i \in DOMAIN ids |-> var_ranges[ids[i]]])
        state(input_values) == [id \in DOMAIN var_ranges |->
            IF \E i \in DOMAIN ids : ids[i] = id
            THEN input_values[CHOOSE i \in DOMAIN ids :
                    ids[i] = id /\ \A j \in DOMAIN ids : ids[j] = id => j <= i]
            ELSE 0]
    IN  [k \in DOMAIN rows |->
            [input_values |-> rows[k],
             output_value |-> evaluate_formula_at_state(q, target_var_id, state(rows[k]))]]

\* the condition on the first input alone
create_single_state_condition_libsbml_first_input(input_state, input_var_ids) ==
    AstNode("AST_RELATIONAL_EQ",
            <<AstName(species_id(input_var_ids[1])), AstInteger(input_state[1])>>)

\* lines 1702-1745
create_single_state_condition_libsbml(input_state, input_var_ids) ==
    LET eq_node(i) == AstNode("AST_RELATIONAL_EQ",
            <<AstName(species_id(input_var_ids[i])), AstInteger(input_state[i])>>)
    IN  IF Len(input_var_ids) = 1 THEN eq_node(1)
        ELSE AstNode("AST_LOGICAL_AND", [i \in DOMAIN input_var_ids |-> eq_node(i)])

\* lines 1674-1699
create_condition_ast_libsbml(input_states, input_var_ids) ==
    IF Len(input_states) = 0 THEN PyNone
    ELSE IF Len(input_states) = 1
    THEN Some(create_single_state_condition_libsbml(input_states[1], input_var_ids))
    ELSE Some(AstNode("AST_LOGICAL_OR", [k \in DOMAIN input_states |->
            create_single_state_condition_libsbml(input_states[k], input_var_ids)]))

\* lines 1643-1648: the outputs in the order of their first row, each with its rows
by_output(truth_table) ==
    LET firsts == {k \in DOMAIN truth_table :
                    \A j \in 1..(k - 1) : truth_table[j].output_value # truth_table[k].output_value}
        nth(n) == CHOOSE k \in firsts : Cardinality({j \in firsts : j < k}) = n - 1
        rowsOf(output) == SelectSeq(truth_table, LAMBDA row : row.output_value = output)
    IN  [n \in 1..Cardinality(firsts) |->
            [output_value |-> truth_table[nth(n)].output_value,
             input_states |-> [k \in DOMAIN rowsOf(truth_table[nth(n)].output_value) |->
                                rowsOf(truth_table[nth(n)].output_value)[k].input_values]]]

\* lines 1634-1671: default term 0, one function term per other output
add_function_terms_libsbml(transition, truth_table, input_var_ids) ==
    LET default_output == 0
        others == SelectSeq(by_output(truth_table),
                            LAMBDA group : group.output_value # default_output)
    IN  [transition EXCEPT
            !.defaultTerm = Some(default_output),
            !.functionTerms = [k \in DOMAIN others |->
                FunctionTerm(others[k].output_value,
                    writeMathML(The(create_condition_ast_libsbml(others[k].input_states,
                                                                 input_var_ids))))]]

\* lines 1306-1324 and 1824-1845: one qualitative species per variable
saved_species(variables) ==
    [k \in DOMAIN variables |->
        Species(species_id(variables[k].Id), Some(variables[k].Name), Some(variables[k].RangeTo),
                IF isdigit(variables[k].Formula) THEN Some(int(variables[k].Formula))
                ELSE PyNone)]

\* lines 1386-1437: one transition per variable whose formula is no number
saved_transitions(model_data) ==
    LET q == model_to_qn(model_data)
        variables == model_data.Variables
        withFormula == SelectSeq(variables, LAMBDA var : ~isdigit(var.Formula))
        by_target(var_id) == SelectSeq(model_data.Relationships,
                                       LAMBDA rel : rel.ToVariable = var_id)
        input_vars(var_id) == [j \in DOMAIN by_target(var_id) |-> by_target(var_id)[j].FromVariable]
    IN  [k \in DOMAIN withFormula |->
            LET var_id == withFormula[k].Id
            IN  add_function_terms_libsbml(
                    Transition([j \in DOMAIN input_vars(var_id) |->
                                    Input(species_id(input_vars(var_id)[j]), "unknown")],
                               <<species_id(var_id)>>, PyNone, << >>),
                    generate_truth_table(q, var_id, input_vars(var_id), variables),
                    input_vars(var_id))]

\* lines 1246-1441: written is the document in the file afterwards
save_bma_to_sbml_qual_libsbml(model_data) ==
    [exc |-> "none", called |-> "save_bma_to_sbml_qual_libsbml",
     written |-> Some([name |-> Some(model_data.Name), id |-> "model",
                       species |-> saved_species(model_data.Variables),
                       transitions |-> saved_transitions(model_data)])]

\* lines 1790-1921: _add_function_terms is defined nowhere, so the first
\* variable with a formula ends the call before the file is written
save_bma_to_sbml_qual_native(model_data) ==
    IF \E k \in DOMAIN model_data.Variables : ~isdigit(model_data.Variables[k].Formula)
    THEN [exc |-> "NameError", called |-> "save_bma_to_sbml_qual_native", written |-> PyNone]
    ELSE [exc |-> "none", called |-> "save_bma_to_sbml_qual_native",
          written |-> Some([name |-> Some(model_data.Name), id |-> "model",
                            species |-> saved_species(model_data.Variables),
                            transitions |-> << >>])]

\* lines 1748-1787
save_bma_to_sbml_qual(model_data, use_libsbml, LIBSBML_AVAILABLE) ==
    LET use == IF use_libsbml = "auto" THEN LIBSBML_AVAILABLE ELSE use_libsbml = "True"
    IN  IF use_libsbml # "auto" /\ use /\ ~LIBSBML_AVAILABLE
        THEN [exc |-> "ImportError", called |-> "none", written |-> PyNone]
        ELSE IF use THEN save_bma_to_sbml_qual_libsbml(model_data)
             ELSE save_bma_to_sbml_qual_native(model_data)

SaveInputs == [use_libsbml : UseLibsbml, LIBSBML_AVAILABLE : BOOLEAN]

\* the SBML-qual file at output_path before the first call
OldFiles ==
    {[name |-> PyNone, id |-> "m1", species |-> sp, transitions |-> << >>] :
        sp \in {<<Species("x", PyNone, Some(1), PyNone)>>,
                 <<Species("x", PyNone, Some(1), PyNone), Species("y", PyNone, Some(2), PyNone)>>}}

\* save_bma_to_sbml_qual(model_data, output_path, use_libsbml) on the model file
SaveBmaToSbmlQual ==
    /\ ~IsNone(sbmlIn)
    /\ IF IsNone(sbmlOut) THEN TRUE ELSE The(sbmlOut).op # "save_bma_to_sbml_qual"
    /\ LET result == save_bma_to_sbml_qual(file, The(sbmlIn).use_libsbml,
                                           The(sbmlIn).LIBSBML_AVAILABLE)
       IN  /\ sbmlOut' = Some([op |-> "save_bma_to_sbml_qual", result |-> result])
           /\ sbmlFile' = IF IsNone(result.written) THEN sbmlFile ELSE result.written
    /\ UNCHANGED <<file, heap, inst, lastRead, lastOp, err, lastSim, traceVars, stabVars, sbmlIn>>

\* load_sbml_qual(output_path, use_libsbml) on the file at that path
LoadSaved ==
    /\ ~IsNone(sbmlIn)
    /\ IF IsNone(sbmlOut) THEN TRUE ELSE The(sbmlOut).op # "load_sbml_qual"
    /\ sbmlOut' = Some([op |-> "load_sbml_qual",
                        result |-> load_sbml_qual(The(sbmlFile), The(sbmlIn).use_libsbml,
                                                  The(sbmlIn).LIBSBML_AVAILABLE)])
    /\ UNCHANGED <<file, heap, inst, lastRead, lastOp, err, lastSim, traceVars, stabVars, sbmlIn,
                   sbmlFile>>

(* --------------------------- ltl.py: testQuery ------------------------- *)

\* the engine's witness of a query: timestep -> (variable -> value), the
\* timesteps 0 .. n-1, n up to MaxTime + 1
LtlStates == {[v \in {0, 1} |-> IF v = 0 THEN x ELSE MaxValue - x] : x \in 0..MaxValue}

LtlModels ==
    UNION {[0..(n - 1) -> LtlStates] : n \in 0..(MaxTime + 1)}

\* (res1, (_, model1), res2, (_, model2)) of BMC.DoubleBoundedMCWithSim
CheckTuples ==
    [Item1 : BOOLEAN, Item2 : [Item2 : LtlModels], Item3 : BOOLEAN, Item4 : [Item2 : LtlModels]]

\* lines 97-101: range(max(d.keys())), the keys below the greatest one
maxRange(d) ==
    IF Cardinality(DOMAIN d) > 0 THEN 0..(SetMax(DOMAIN d) - 1) ELSE {}

\* lines 105-113 and 118-126: ptrace[int(item.Key)].append(item.Value), x ascending
RECURSIVE ltl_trace(_, _, _)
ltl_trace(model, x, so_far) ==
    IF x \notin maxRange(model) THEN so_far
    ELSE ltl_trace(model, x + 1,
            [v \in DOMAIN so_far \cup DOMAIN model[x] |->
                IF v \notin DOMAIN model[x] THEN so_far[v]
                ELSE IF v \in DOMAIN so_far THEN Append(so_far[v], model[x][v])
                ELSE <<model[x][v]>>])

\* lines 83-130; ltl_formula is "Error" for a query that does not parse
testQuery(well_formed, checkTuple) ==
    IF ~well_formed THEN [returned |-> "empty"]
    ELSE [returned |-> "result",
          query |-> checkTuple.Item1,
          posTrace |-> ltl_trace(checkTuple.Item2.Item2, 0, EmptyDict),
          negation |-> checkTuple.Item3,
          negTrace |-> ltl_trace(checkTuple.Item4.Item2, 0, EmptyDict)]

TestQuery ==
    /\ ~IsNone(raw)
    /\ IsNone(stab)
    /\ stab' = Some(testQuery(The(call), The(raw)))
    /\ UNCHANGED <<file, heap, inst, lastRead, lastOp, err, lastSim, traceVars, call, raw, sbmlVars>>

(* ------------------------------ Spec ----------------------------------- *)

Init ==
    /\ file \in ModelFiles
    /\ heap = [a \in {"a1"} |-> file]
    /\ inst = [i \in {"m"} |-> BMAModel("a1")]
    /\ lastRead = PyNone
    /\ lastOp = Op("load", "m", -1, "")
    /\ err = "none"
    /\ lastSim = PyNone
    /\ trace = EmptyDict
    /\ flat = PyNone
    /\ call = PyNone
    /\ raw = PyNone
    /\ stab = PyNone
    /\ sbmlIn = PyNone
    /\ sbmlOut = PyNone
    /\ sbmlFile = PyNone

\* the BMAModel operations and simulate calls, in any order
Next ==
    \/ DeepCopy
    \/ \E i \in Instances : ReadQn(i)
    \/ \E i \in Instances : RefreshQn(i)
    \/ \E i \in Instances, id \in KnockoutIds, f \in KnockoutFormulas : knockout_variable(i, id, f)
    \/ \E steps \in 0..MaxSteps, iv \in InitialValues(lastRead) : Simulate(steps, iv)

Spec == Init /\ [][Next]_vars

\* one operator of the range arithmetic on two intervals, and on two integers
\* of these intervals
Intervals == {<<lo, hi>> \in ((0 - MaxArg)..MaxArg) \X ((0 - MaxArg)..MaxArg) : lo <= hi}

RangeInputs ==
    {[op |-> op, A |-> A, B |-> B, a |-> a, b |-> b] :
        op \in RangeOperators, A \in Intervals, B \in Intervals,
        a \in (0 - MaxArg)..MaxArg, b \in (0 - MaxArg)..MaxArg}

ApplyRangeOp ==
    /\ ~IsNone(call)
    /\ IsNone(raw)
    /\ raw' = Some([bounds |-> RangeArithmetic(The(call).op, The(call).A, The(call).B),
                    values |-> IF The(call).op = "div" /\ The(call).b = 0 THEN {}
                               ELSE ConcreteOp(The(call).op, The(call).a, The(call).b)])
    /\ UNCHANGED <<file, heap, inst, lastRead, lastOp, err, lastSim, traceVars, call, stab, sbmlVars>>

InitRange ==
    /\ file = SelfInhibition
    /\ heap = [a \in {"a1"} |-> file]
    /\ inst = [i \in {"m"} |-> BMAModel("a1")]
    /\ lastRead = PyNone
    /\ lastOp = Op("load", "m", -1, "")
    /\ err = "none"
    /\ lastSim = PyNone
    /\ trace = EmptyDict
    /\ flat = PyNone
    /\ call \in {Some(in) : in \in {x \in RangeInputs :
                    x.A[1] <= x.a /\ x.a <= x.A[2] /\ x.B[1] <= x.b /\ x.b <= x.B[2]}}
    /\ raw = PyNone
    /\ stab = PyNone
    /\ sbmlIn = PyNone
    /\ sbmlOut = PyNone
    /\ sbmlFile = PyNone

NextRange == ApplyRangeOp

SpecRange == InitRange /\ [][NextRange]_vars

\* one update set applied to one state of a network
StepInputs(model_data) ==
    {[qn |-> model_to_qn(model_data), state |-> s, update_set |-> U] :
        s \in Box(DeclaredRanges(model_to_qn(model_data))),
        U \in SUBSET QnVars(model_to_qn(model_data))}

ApplyUpdateSet ==
    /\ ~IsNone(call)
    /\ IsNone(raw)
    /\ raw' = Some(StepOn(The(call).qn, The(call).state, The(call).update_set))
    /\ UNCHANGED <<file, heap, inst, lastRead, lastOp, err, lastSim, traceVars, call, stab, sbmlVars>>

InitStep ==
    /\ file \in SaveFiles
    /\ heap = [a \in {"a1"} |-> file]
    /\ inst = [i \in {"m"} |-> BMAModel("a1")]
    /\ lastRead = PyNone
    /\ lastOp = Op("load", "m", -1, "")
    /\ err = "none"
    /\ lastSim = PyNone
    /\ trace = EmptyDict
    /\ flat = PyNone
    /\ call \in {Some(in) : in \in StepInputs(file)}
    /\ raw = PyNone
    /\ stab = PyNone
    /\ sbmlIn = PyNone
    /\ sbmlOut = PyNone
    /\ sbmlFile = PyNone

NextStep == ApplyUpdateSet

SpecStep == InitStep /\ [][NextStep]_vars

\* a loaded network, knocked out or not, handed to check_stability
InitStability ==
    /\ file \in StabilityFiles
    /\ heap = [a \in {"a1"} |-> file]
    /\ inst = [i \in {"m"} |-> BMAModel("a1")]
    /\ lastRead = PyNone
    /\ lastOp = Op("load", "m", -1, "")
    /\ err = "none"
    /\ lastSim = PyNone
    /\ trace = EmptyDict
    /\ flat = PyNone
    /\ call = PyNone
    /\ raw = PyNone
    /\ stab = PyNone
    /\ sbmlIn = PyNone
    /\ sbmlOut = PyNone
    /\ sbmlFile = PyNone

NextStability ==
    \/ \E i \in Instances : ReadQn(i)
    \/ \E i \in Instances, id \in KnockoutIds, f \in KnockoutFormulas : knockout_variable(i, id, f)
    \/ \E synchronous \in BOOLEAN : CheckStability(synchronous)

SpecStability == InitStability /\ [][NextStability]_vars

\* any result of the engine's shape, handed to unpackResult
InitUnpack ==
    /\ file = SelfInhibition
    /\ heap = [a \in {"a1"} |-> file]
    /\ inst = [i \in {"m"} |-> BMAModel("a1")]
    /\ lastRead = PyNone
    /\ lastOp = Op("load", "m", -1, "")
    /\ err = "none"
    /\ lastSim = PyNone
    /\ trace = EmptyDict
    /\ flat = PyNone
    /\ call = PyNone
    /\ raw \in {Some(r) : r \in RawResults}
    /\ stab = PyNone
    /\ sbmlIn = PyNone
    /\ sbmlOut = PyNone
    /\ sbmlFile = PyNone

NextUnpack == UnpackResult

SpecUnpack == InitUnpack /\ [][NextUnpack]_vars

\* a query, well formed or not, and what the engine answers it with
InitLtl ==
    /\ file = SelfInhibition
    /\ heap = [a \in {"a1"} |-> file]
    /\ inst = [i \in {"m"} |-> BMAModel("a1")]
    /\ lastRead = PyNone
    /\ lastOp = Op("load", "m", -1, "")
    /\ err = "none"
    /\ lastSim = PyNone
    /\ trace = EmptyDict
    /\ flat = PyNone
    /\ call \in {Some(well_formed) : well_formed \in BOOLEAN}
    /\ raw \in {Some(t) : t \in CheckTuples}
    /\ stab = PyNone
    /\ sbmlIn = PyNone
    /\ sbmlOut = PyNone
    /\ sbmlFile = PyNone

NextLtl == TestQuery

SpecLtl == InitLtl /\ [][NextLtl]_vars

\* a rule of one operator over two operands, handed to both readers
InitMath ==
    /\ file = SelfInhibition
    /\ heap = [a \in {"a1"} |-> file]
    /\ inst = [i \in {"m"} |-> BMAModel("a1")]
    /\ lastRead = PyNone
    /\ lastOp = Op("load", "m", -1, "")
    /\ err = "none"
    /\ lastSim = PyNone
    /\ trace = EmptyDict
    /\ flat = PyNone
    /\ call = PyNone
    /\ raw = PyNone
    /\ stab = PyNone
    /\ sbmlIn \in {Some(in) : in \in MathInputs}
    /\ sbmlOut = PyNone
    /\ sbmlFile = PyNone

NextMath == ConvertMath

SpecMath == InitMath /\ [][NextMath]_vars

\* a readable SBML-qual file, a choice of reader, libsbml installed or not
InitLoad ==
    /\ file = SelfInhibition
    /\ heap = [a \in {"a1"} |-> file]
    /\ inst = [i \in {"m"} |-> BMAModel("a1")]
    /\ lastRead = PyNone
    /\ lastOp = Op("load", "m", -1, "")
    /\ err = "none"
    /\ lastSim = PyNone
    /\ trace = EmptyDict
    /\ flat = PyNone
    /\ call = PyNone
    /\ raw = PyNone
    /\ stab = PyNone
    /\ sbmlIn \in {Some(in) : in \in LoadInputs}
    /\ sbmlOut = PyNone
    /\ sbmlFile = PyNone

NextLoad == LoadSbmlQual

SpecLoad == InitLoad /\ [][NextLoad]_vars

\* the formula of a transition, and of a piecewise, with given cases
InitExtract ==
    /\ file = SelfInhibition
    /\ heap = [a \in {"a1"} |-> file]
    /\ inst = [i \in {"m"} |-> BMAModel("a1")]
    /\ lastRead = PyNone
    /\ lastOp = Op("load", "m", -1, "")
    /\ err = "none"
    /\ lastSim = PyNone
    /\ trace = EmptyDict
    /\ flat = PyNone
    /\ call = PyNone
    /\ raw = PyNone
    /\ stab = PyNone
    /\ sbmlIn \in {Some(in) : in \in ExtractInputs}
    /\ sbmlOut = PyNone
    /\ sbmlFile = PyNone

NextExtract == ExtractFormula

SpecExtract == InitExtract /\ [][NextExtract]_vars

\* a model file written with save_bma_to_sbml_qual and read back
InitSave ==
    /\ file \in SaveFiles
    /\ heap = [a \in {"a1"} |-> file]
    /\ inst = [i \in {"m"} |-> BMAModel("a1")]
    /\ lastRead = PyNone
    /\ lastOp = Op("load", "m", -1, "")
    /\ err = "none"
    /\ lastSim = PyNone
    /\ trace = EmptyDict
    /\ flat = PyNone
    /\ call = PyNone
    /\ raw = PyNone
    /\ stab = PyNone
    /\ sbmlIn \in {Some(in) : in \in SaveInputs}
    /\ sbmlOut = PyNone
    /\ sbmlFile \in {Some(old) : old \in OldFiles}

NextSave ==
    \/ SaveBmaToSbmlQual
    \/ LoadSaved

SpecSave == InitSave /\ [][NextSave]_vars

\* a counterexample map of the engine, converted and then flattened
InitTrace ==
    /\ file = SelfInhibition
    /\ heap = [a \in {"a1"} |-> file]
    /\ inst = [i \in {"m"} |-> BMAModel("a1")]
    /\ lastRead = PyNone
    /\ lastOp = Op("load", "m", -1, "")
    /\ err = "none"
    /\ lastSim = PyNone
    /\ trace \in {fsharp_map_to_python(m) : m \in EngineMaps}
    /\ flat = PyNone
    /\ call = PyNone
    /\ raw = PyNone
    /\ stab = PyNone
    /\ sbmlIn = PyNone
    /\ sbmlOut = PyNone
    /\ sbmlFile = PyNone

NextTrace == BmaTraceToDict

SpecTrace == InitTrace /\ [][NextTrace]_vars

(* ------------------------------ claims --------------------------------- *)

FormulaOf(data, id) ==
    data.Variables[CHOOSE k \in DOMAIN data.Variables : data.Variables[k].Id = id].Formula

KnockoutDone == lastOp.op = "knockout_variable" /\ err = "none"

C2_QnReadIsCurrent ==
    lastOp.op = "qn" => lastRead = Some(model_to_qn(ModelData(lastOp.target)))

C2_Witness ==
    /\ lastOp.op = "qn"
    /\ ModelData(lastOp.target) # file
    /\ lastRead = Some(model_to_qn(ModelData(lastOp.target)))
    /\ lastRead # Some(model_to_qn(file))

\* C3: an operation invoked on one instance leaves the model data and the
\* cached QN of every other instance as they were.
C3_InstancesIndependent ==
    [][\A j \in DOMAIN inst :
          j # lastOp'.target =>
              /\ heap'[inst'[j].data] = heap[inst[j].data]
              /\ inst'[j].qn = inst[j].qn]_vars

C3_Witness ==
    /\ "c" \in Live
    /\ KnockoutDone
    /\ lastOp.target = "c"
    /\ ModelData("m") = file
    /\ ModelData("c") # file
    /\ ~IsNone(inst["m"].qn)

SimReturned == ~IsNone(lastSim) /\ The(lastSim).exc = "none"

\* C4: the dictionary simulate returns has every variable of the network as a
\* key and a list of steps+1 values under every key.
C4_TraceLength ==
    SimReturned =>
        LET c == The(lastSim)
        IN  /\ DOMAIN c.value = QnVars(c.qn)
            /\ \A v \in DOMAIN c.value : Len(c.value[v]) = c.steps + 1

C4_Witness ==
    /\ SimReturned
    /\ The(lastSim).steps = MaxSteps
    /\ Cardinality(QnVars(The(lastSim).qn)) = 2
    /\ \A v \in DOMAIN The(lastSim).value : Len(The(lastSim).value[v]) = MaxSteps + 1

\* C5: the state handed to the engine is total over the variables of the
\* network, and a trace returned for a given initial state starts with it.
C5_InitialStateUsed ==
    ~IsNone(lastSim) =>
        LET c == The(lastSim)
        IN  /\ DOMAIN c.t0 = QnVars(c.qn)
            /\ (c.exc = "none" /\ ~IsNone(c.initial)) =>
                    \A v \in QnVars(c.qn) : c.value[v][1] = The(c.initial)[v]

StateAt(c, t) == [u \in QnVars(c.qn) |-> c.value[u][t]]

\* C7: in a returned trace every value at step t+1 is the clamped value of
\* the variable's formula in the state at step t, for all variables alike.
C7_SynchronousStep ==
    SimReturned =>
        LET c == The(lastSim)
        IN  \A t \in 1..c.steps : \A v \in QnVars(c.qn) :
                LET n == NodeOf(c.qn, v)
                    e == Eval(ParseFormula(n.f), StateAt(c, t))
                IN  e.ok /\ c.value[v][t + 1] = Clamp(e.v, n.lo, n.hi)

\* two variables, one reading the other, whose values move in the same step
C7_Witness ==
    /\ SimReturned
    /\ The(lastSim).steps = 2
    /\ The(lastSim).qn = model_to_qn(Counter)
    /\ The(lastSim).value[1] = <<0, 1, 2>>
    /\ The(lastSim).value[0] = <<0, 0, 1>>

\* C8: the initial state simulate builds, and every state of the trace it
\* returns, gives every variable a value inside its declared range.
C8_StatesTotalInRange ==
    (~IsNone(lastSim) /\ IsNone(The(lastSim).initial)) =>
        LET c == The(lastSim)
            inRange(v, x) == NodeOf(c.qn, v).lo <= x /\ x <= NodeOf(c.qn, v).hi
        IN  /\ DOMAIN c.t0 = QnVars(c.qn)
            /\ \A v \in QnVars(c.qn) : inRange(v, c.t0[v])
            /\ c.exc = "none" =>
                    /\ DOMAIN c.value = QnVars(c.qn)
                    /\ \A v \in QnVars(c.qn) : \A t \in DOMAIN c.value[v] :
                            inRange(v, c.value[v][t])

Flattened == ~IsNone(flat)

TraceCells == {c \in TraceVarIds \X (0..MaxTime) : EngineKey(c[1], c[2]) \in DOMAIN trace}

TraceTimes == {c[2] : c \in TraceCells}

TraceVars == {c[1] : c \in TraceCells}

LastTime == CHOOSE t \in TraceTimes : \A u \in TraceTimes : u <= t

\* C9: the flattened trace has one row per variable id of the trace, every
\* row as long as the largest timestep + 1, the trace's value in every cell
\* the trace gives and None in every other cell.
C9_DenseTable ==
    Flattened =>
        LET r == The(flat)
        IN  /\ r.exc = "none"
            /\ DOMAIN r.value = TraceVars
            /\ \A v \in TraceVars :
                  /\ Len(r.value[v]) = LastTime + 1
                  /\ \A t \in 0..LastTime :
                        r.value[v][t + 1] =
                            IF <<v, t>> \in TraceCells THEN Some(trace[EngineKey(v, t)])
                            ELSE PyNone

\* a trace with a missing cell whose other cells hold zeros and non-zeros
C9_Witness ==
    /\ Flattened
    /\ TraceVars = TraceVarIds
    /\ <<10, 1>> \notin TraceCells
    /\ The(flat).value[10] = <<Some(0), PyNone, Some(1)>>
    /\ The(flat).value[0] = <<Some(1), Some(0), Some(0)>>

NonContiguous == \E t \in 0..MaxTime : t \notin TraceTimes /\ \E u \in TraceTimes : u > t

MissingValue == \E v \in TraceVars, t \in TraceTimes : <<v, t>> \notin TraceCells

Returned == ~IsNone(stab) /\ The(stab).exc = "none"

Result == The(The(stab).value)

RawTag == The(raw).Item1.tag

Retagged(t) == [The(raw) EXCEPT !.Item1.tag = t]

\* C11: an engine outcome that is neither Stabilizing nor NotStabilizing is
\* returned as a value different from the one returned for Stabilizing and
\* from the one returned for NotStabilizing.
C11_ThirdOutcomeDistinct ==
    (Returned /\ RawTag \notin {"SRStabilizing", "SRNotStabilizing"}) =>
        /\ The(stab) # unpackResult(Retagged("SRStabilizing"))
        /\ The(stab) # unpackResult(Retagged("SRNotStabilizing"))

\* C12: check_stability accepts a deadline or step budget and hands it to the
\* prover, which checks it between rounds and expansions.
C12_BudgetAccepted ==
    ~IsNone(call) => Len(The(call).args) > Len(<<"qn", "no_sat", "concurrency">>)

Stable == Returned /\ Result.ProofProgression.stable

History == Result.ProofProgression.history

FinalRanges == History[Len(History)][2]

\* a Stabilizing result whose last range map gives every variable one value
ReportsState == Stable /\ History # <<>> /\ Singletons(FinalRanges)

FinalState == [v \in DOMAIN FinalRanges |-> FinalRanges[v][1]]

CallQn == The(call).qn

Discipline == IF The(call).synchronous THEN "Synchronous" ELSE "Asynchronous"

InitialStates == Box(DeclaredRanges(CallQn))

\* every execution from s is at state S after at most k steps
RECURSIVE AllReach(_, _, _, _, _)
AllReach(q, concurrency, s, S, k) ==
    \/ s = S
    \/ /\ k > 0
       /\ \A t \in Successors(q, s, concurrency) : AllReach(q, concurrency, t, S, k - 1)

\* the execution from s that updates every variable at every step is at S
\* after at most k steps
RECURSIVE FullUpdatesReach(_, _, _, _)
FullUpdatesReach(q, s, S, k) ==
    \/ s = S
    \/ /\ k > 0
       /\ FullUpdatesReach(q, StepOn(q, s, DOMAIN s), S, k - 1)

StaysAt(q, concurrency, S) == \A t \in Successors(q, S, concurrency) : t = S

HasCex == Returned /\ ~IsNone(Result.CounterExample)

Cex == The(Result.CounterExample)

CycleReported == HasCex /\ Cex.Result = "CExCycle" /\ ~IsNone(Cex.Example)

CexTrace == The(Cex.Example)

CexLength == Len(CexTrace[CHOOSE v \in DOMAIN CexTrace : TRUE])

\* the state the flattened trace records at timestep t (rows start at 1)
CexState(t) == [v \in DOMAIN CexTrace |-> The(CexTrace[v][t + 1])]

\* C14: the trace of a Cycle counterexample gives every variable of the
\* network a value at every recorded timestep, each state follows from the
\* one before by a step of the call's discipline, and some state occurs twice.
C14_CycleIsExecution ==
    CycleReported =>
        /\ DOMAIN CexTrace = QnVars(CallQn)
        /\ \A v \in DOMAIN CexTrace : \A i \in DOMAIN CexTrace[v] : ~IsNone(CexTrace[v][i])
        /\ \A t \in 0..(CexLength - 2) :
                CexState(t + 1) \in Successors(CallQn, CexState(t), Discipline)
        /\ \E i, j \in 0..(CexLength - 1) : i < j /\ CexState(i) = CexState(j)

C14_Witness ==
    /\ CycleReported
    /\ Cardinality(QnVars(CallQn)) = 2
    /\ Discipline = "Synchronous"
    /\ CexLength = 3

SelfInhibitionAsynchronous ==
    /\ ~IsNone(call)
    /\ CallQn = model_to_qn(SelfInhibition)
    /\ Discipline = "Asynchronous"

ConstantChecked == ~IsNone(call) /\ CallQn = model_to_qn(Constant)

\* the self-inhibition network, variable 0 knocked out to formula 0, read
\* and handed to check_stability
KnockedOutChecked ==
    /\ ~IsNone(call)
    /\ file = SelfInhibition
    /\ FormulaOf(ModelData("m"), 0) = "0"
    /\ CallQn = model_to_qn(ModelData("m"))

\* C16: the constant-1 network is Stabilizing with final state {0:1} under
\* either discipline, and the self-inhibition network knocked out to formula
\* 0 is Stabilizing with final state {0:0} under either discipline.
C16_ConstantNetworksStabilize ==
    /\ ConstantChecked => (ReportsState /\ IsNone(Result.CounterExample)
                            /\ DOMAIN FinalState = {0} /\ FinalState[0] = 1)
    /\ KnockedOutChecked => (ReportsState /\ IsNone(Result.CounterExample)
                              /\ DOMAIN FinalState = {0} /\ FinalState[0] = 0)

C16_Witness == KnockedOutChecked /\ Discipline = "Asynchronous" /\ ReportsState

CexTags == {"CExCycle", "CExFixpoint", "CExEndComponent", "CExBifurcation"}

\* C17: in every result of check_stability a counterexample is present
\* exactly when the verdict is NotStabilizing, it carries one of the four tags
\* and its example, and a Stabilizing verdict carries none.
C17_VerdictAndCexAgree ==
    (~IsNone(call) /\ ~IsNone(stab)) =>
        /\ Returned
        /\ HasCex <=> ~Result.ProofProgression.stable
        /\ HasCex => (Cex.Result \in CexTags /\ ~IsNone(Cex.Example))
        /\ Stable => IsNone(Result.CounterExample)

C17_Witness ==
    /\ ~IsNone(call)
    /\ HasCex
    /\ Cex.Result = "CExBifurcation"
    /\ ~Result.ProofProgression.stable

Within(inner, outer) == outer[1] <= inner[1] /\ inner[1] <= inner[2] /\ inner[2] <= outer[2]

RECURSIVE TotalWidth(_, _)
TotalWidth(ranges, ids) ==
    IF ids = {} THEN 0
    ELSE LET v == CHOOSE x \in ids : TRUE
         IN  (ranges[v][2] - ranges[v][1]) + TotalWidth(ranges, ids \ {v})

\* C18: in the proof history the rounds are numbered from 0, every range of
\* a round is contained in the range of the round before and in the declared
\* [lo,hi], every round but the first shrinks some range, so that there are no
\* more rounds than the declared ranges have room for, and the last range map
\* is a fixed point of the tightening round.
C18_TighteningMonotone ==
    (~IsNone(call) /\ Returned) =>
        /\ History # <<>>
        /\ \A k \in DOMAIN History :
                /\ History[k][1] = k - 1
                /\ DOMAIN History[k][2] = QnVars(CallQn)
                /\ \A v \in QnVars(CallQn) :
                        Within(History[k][2][v], DeclaredRanges(CallQn)[v])
        /\ \A k \in 1..(Len(History) - 1) :
                /\ \A v \in QnVars(CallQn) : Within(History[k + 1][2][v], History[k][2][v])
                /\ History[k + 1][2] # History[k][2]
        /\ Len(History) - 1 <= TotalWidth(DeclaredRanges(CallQn), QnVars(CallQn))
        /\ TightenRound(CallQn, FinalRanges) = FinalRanges

C18_Witness ==
    /\ ~IsNone(call)
    /\ Returned
    /\ Len(History) >= 3
    /\ \E v \in QnVars(CallQn) : FinalRanges[v] # DeclaredRanges(CallQn)[v]

Rule == The(sbmlIn)

Operands == [id \in {0, 1} |-> IF id = 0 THEN Rule.a ELSE Rule.b]

Truth(b) == IF b THEN 1 ELSE 0

\* what the operator of the rule says of its operands
Holds ==
    CASE Rule.operator = "eq" -> Rule.a = Rule.b
      [] Rule.operator = "neq" -> Rule.a # Rule.b
      [] Rule.operator = "gt" -> Rule.a > Rule.b
      [] Rule.operator = "geq" -> Rule.a >= Rule.b
      [] Rule.operator = "lt" -> Rule.a < Rule.b
      [] Rule.operator = "leq" -> Rule.a <= Rule.b
      [] Rule.operator = "and" -> Rule.a = 1 /\ Rule.b = 1
      [] Rule.operator = "or" -> Rule.a = 1 \/ Rule.b = 1
      [] Rule.operator = "not" -> Rule.a # 1

\* boolean operators are over {0,1}
InScope ==
    Rule.operator \in RelationalTags
        \/ (Rule.a \in {0, 1} /\ (Rule.operator = "not" \/ Rule.b \in {0, 1}))

\* C19: the expression either reader emits for eq, neq, gt, geq, lt, leq over
\* integers a, b, and for and, or, not over operands in {0,1}, evaluates to 1
\* when the operator holds of the operands and to 0 when it does not.
C19_EncodingsAreBoolean ==
    (~IsNone(sbmlOut) /\ InScope) =>
        /\ EvalText(The(sbmlOut).native, Operands) = Ok(Truth(Holds))
        /\ EvalText(The(sbmlOut).libsbml, Operands) = Ok(Truth(Holds))

C19_Witness ==
    /\ ~IsNone(sbmlOut)
    /\ Rule.operator = "geq"
    /\ Rule.kind = "cn"
    /\ Rule.a = 0 - MaxArg
    /\ Rule.b = MaxArg
    /\ EvalText(The(sbmlOut).native, Operands) = Ok(0)

Loading == The(sbmlIn)

Loaded == The(sbmlOut)

\* the three selections the claim names
SelectionWorks ==
    \/ Loading.use_libsbml = "True" /\ Loading.LIBSBML_AVAILABLE
    \/ Loading.use_libsbml = "False"
    \/ Loading.use_libsbml = "auto" /\ ~Loading.LIBSBML_AVAILABLE

\* C20: for a readable SBML-qual file load_sbml_qual returns a BMA model
\* dictionary with Model.Name, Model.Variables (one per qualitative species)
\* and Model.Relationships, whether libsbml is asked for and installed, the
\* native parser is asked for, or 'auto' falls back to the native parser.
C20_LoadReturnsModel ==
    (~IsNone(sbmlOut) /\ SelectionWorks) =>
        /\ Loaded.exc = "none"
        /\ ~IsNone(Loaded.value)
        /\ {"Name", "Variables", "Relationships"} \subseteq DOMAIN The(Loaded.value).Model
        /\ Len(The(Loaded.value).Model.Variables) = Len(Loading.doc.species)

(* ---- C21 ---- *)

SelectionCall == The(sbmlOut')

\* the implementation the documented selection names for the call made
Selected ==
    LET use == The(sbmlIn).use_libsbml
        available == The(sbmlIn).LIBSBML_AVAILABLE
        libsbml == IF SelectionCall.op = "load_sbml_qual" THEN "_load_with_libsbml"
                   ELSE "save_bma_to_sbml_qual_libsbml"
        native == IF SelectionCall.op = "load_sbml_qual" THEN "_load_native"
                  ELSE "save_bma_to_sbml_qual_native"
    IN  CASE use = "auto" -> IF available THEN libsbml ELSE native
          [] use = "False" -> native
          [] use = "True" -> IF available THEN libsbml ELSE "none"

\* C21: load_sbml_qual and save_bma_to_sbml_qual go to the libsbml
\* implementation under 'auto' exactly when libsbml is available and to the
\* native one otherwise, always to the native one under False, and under True
\* without libsbml they raise ImportError with no implementation called and
\* the file left as it was.
C21_ParserSelection ==
    [][/\ SelectionCall.result.called = Selected
       /\ Selected = "none" <=> SelectionCall.result.exc = "ImportError"
       /\ Selected = "none" => sbmlFile' = sbmlFile]_vars

\* a file written by the libsbml writer under 'auto' and read back by the
\* libsbml reader
C21_Witness ==
    /\ ~IsNone(sbmlOut)
    /\ The(sbmlOut).op = "load_sbml_qual"
    /\ The(sbmlOut).result.called = "_load_with_libsbml"
    /\ The(sbmlIn).use_libsbml = "auto"
    /\ The(sbmlFile).id = "model"

(* ---- C22 ---- *)

RangeCall == The(call)

Bounds == The(raw).bounds

\* C22: the interval computed for +, -, *, /, min, max, floor or ceil on two
\* integer intervals (the divisor interval without 0) contains the value of
\* the operator on every two integers of these intervals; a quotient lies
\* between the bounds whichever way it is rounded.
C22_RangeArithmeticSound ==
    (~IsNone(raw) /\ ~(RangeCall.op = "div" /\ RangeCall.B[1] <= 0 /\ 0 <= RangeCall.B[2])) =>
        /\ Bounds.exc = "none"
        /\ The(raw).values # {}
        /\ \A value \in The(raw).values :
                Bounds.range[1] <= value /\ value <= Bounds.range[2]

\* a product of two intervals that both reach below and above 0
C22_Witness ==
    /\ ~IsNone(raw)
    /\ RangeCall.op = "times"
    /\ RangeCall.A[1] < 0 /\ RangeCall.A[2] > 0
    /\ RangeCall.B[1] < 0 /\ RangeCall.B[2] > 0
    /\ RangeCall.a * RangeCall.b = Bounds.range[1]

(* ---- C23 ---- *)

Extracting == The(sbmlIn)

Extracted == The(sbmlOut)

\* what a condition says of a level of x
ConditionHolds(condition, x) ==
    LET k == condition.children[3].text
        operator == condition.children[1].tag
    IN  CASE operator = "eq" -> x = k
          [] operator = "geq" -> x >= k
          [] operator = "lt" -> x < k

Holding(x) == {k \in DOMAIN Extracting.cases : ConditionHolds(Extracting.cases[k].condition, x)}

MutuallyExclusive == \A x \in Levels : Cardinality(Holding(x)) <= 1

\* the level the cases give in a state: of the case whose condition holds,
\* else the default
LevelAt(x) ==
    IF Holding(x) = {} THEN The(Extracting.default)
    ELSE Extracting.cases[CHOOSE k \in Holding(x) : TRUE].level

ValueAt(text, x) == EvalText(text, [id \in {0, 1} |-> IF id = 0 THEN x ELSE 0])

\* C23: with mutually exclusive conditions and a default, the formula either
\* extractor gives for a transition, and either converter for a piecewise,
\* evaluates in every state to the level of the case whose condition holds
\* and to the default (the otherwise value) when none holds.
C23_ExtractedFormulaIsCaseLevel ==
    (~IsNone(sbmlOut) /\ MutuallyExclusive /\ ~IsNone(Extracting.default)) =>
        \A x \in Levels :
            /\ ValueAt(The(Extracted.native), x) = Ok(LevelAt(x))
            /\ ValueAt(The(Extracted.libsbml), x) = Ok(LevelAt(x))
            /\ ValueAt(Extracted.piecewise_native, x) = Ok(LevelAt(x))
            /\ ValueAt(Extracted.piecewise_libsbml, x) = Ok(LevelAt(x))

(* ---- C24, C25 ---- *)

KnockoutStep == lastOp'.op = "knockout_variable"

DataBefore == heap[inst[lastOp'.target].data]

DataAfter == heap'[inst'[lastOp'.target].data]

UniqueIds(data) ==
    \A j, k \in DOMAIN data.Variables : data.Variables[j].Id = data.Variables[k].Id => j = k

Carried(data, id) == \E k \in DOMAIN data.Variables : data.Variables[k].Id = id

C25_UnknownIdChangesNothing ==
    [][(KnockoutStep /\ ~Carried(DataBefore, lastOp'.id)) =>
        /\ err' # "none"
        /\ heap' = heap
        /\ inst' = inst]_vars

\* a failed knockout on a model whose QN is cached
C25_Witness ==
    /\ lastOp.op = "knockout_variable"
    /\ err = "TypeError"
    /\ ~Carried(ModelData(lastOp.target), lastOp.id)
    /\ ~IsNone(inst[lastOp.target].qn)

(* ---- C28 ---- *)

\* a returned trace has, for every variable of the witness, the values of all
\* its timesteps in ascending order
Covers(returned, model) ==
    /\ DOMAIN returned = UNION {DOMAIN model[t] : t \in DOMAIN model}
    /\ \A v \in DOMAIN returned :
          /\ Len(returned[v]) = Cardinality(DOMAIN model)
          /\ \A t \in DOMAIN model : returned[v][t + 1] = model[t][v]

\* C28: for the positive and for the negated query the trace testQuery
\* returns has one value per timestep of the engine's witness in each
\* variable's list, in ascending order of the timesteps, and is empty only
\* when the witness is.
C28_TracesCoverWitness ==
    (~IsNone(stab) /\ The(call)) =>
        /\ The(stab).returned = "result"
        /\ Covers(The(stab).posTrace, The(raw).Item2.Item2)
        /\ Covers(The(stab).negTrace, The(raw).Item4.Item2)

(* ---- C26 ---- *)

EngineCex == The(raw).Item2

Unpacked == The(The(stab).value)

\* example is the flattening of the engine's map m: a row per variable of the
\* map, the value of cell (v, t) at position t of row v
Flattens(example, m) ==
    /\ DOMAIN example = {v \in TraceVarIds : \E t \in 0..MaxTime : EngineKey(v, t) \in DOMAIN m}
    /\ \A v \in DOMAIN example : \A t \in 0..MaxTime :
          EngineKey(v, t) \in DOMAIN m =>
              /\ t + 1 \in DOMAIN example[v]
              /\ example[v][t + 1] = Some(m[EngineKey(v, t)])

\* C26: the CounterExample unpackResult reports is None exactly when the
\* engine gave none; otherwise its Result is the engine's tag, and its Example
\* is the flattened trace for Cycle, Fixpoint and EndComponent and the pair of
\* the two flattened traces, in the engine's order, for Bifurcation.
C26_CexTagAndShapeKept ==
    ~IsNone(stab) =>
        /\ The(stab).exc = "none"
        /\ IsNone(Unpacked.CounterExample) <=> IsNone(EngineCex)
        /\ ~IsNone(EngineCex) =>
              LET cex == The(EngineCex)
                  reported == The(Unpacked.CounterExample)
              IN  /\ reported.Result = cex.tag
                  /\ cex.tag \in {"CExCycle", "CExFixpoint", "CExEndComponent"} =>
                        /\ ~IsNone(reported.Example)
                        /\ Flattens(The(reported.Example), cex.Item)
                  /\ cex.tag = "CExBifurcation" =>
                        /\ ~IsNone(reported.Example)
                        /\ Len(The(reported.Example)) = 2
                        /\ Flattens(The(reported.Example)[1], cex.Item1)
                        /\ Flattens(The(reported.Example)[2], cex.Item2)

\* a bifurcation between the fixpoints 0 and 1 of variable 0, in this order
C26_Witness ==
    /\ ~IsNone(stab)
    /\ ~IsNone(EngineCex)
    /\ The(EngineCex).tag = "CExBifurcation"
    /\ The(Unpacked.CounterExample).Result = "CExBifurcation"
    /\ DOMAIN The(EngineCex).Item1 # {}
    /\ DOMAIN The(EngineCex).Item2 # {}
    /\ The(The(Unpacked.CounterExample).Example)[1][0] = <<Some(0)>>
    /\ The(The(Unpacked.CounterExample).Example)[2][0] = <<Some(1)>>

(* ---- C30 ---- *)

EngineProof == The(raw).Item1

EngineHistory == IF IsNone(EngineProof.Item) THEN << >> ELSE The(EngineProof.Item)

\* C30: unpackProof reports stable = True exactly for the engine's
\* Stabilizing result, and a history with one (timestep, ranges) entry per
\* entry of the engine's history, in the engine's order, every variable with
\* the engine's bounds (lo, hi), lo <= hi.
C30_HistoryKept ==
    ~IsNone(stab) =>
        LET reported == Unpacked.ProofProgression
        IN  /\ reported.stable <=> EngineProof.tag = "SRStabilizing"
            /\ Len(reported.history) = Len(EngineHistory)
            /\ \A k \in DOMAIN EngineHistory :
                  /\ reported.history[k][1] = EngineHistory[k].Item1
                  /\ DOMAIN reported.history[k][2] = DOMAIN EngineHistory[k].Item2
                  /\ \A v \in DOMAIN EngineHistory[k].Item2 :
                        /\ reported.history[k][2][v]
                              = <<EngineHistory[k].Item2[v].Item1, EngineHistory[k].Item2[v].Item2>>
                        /\ reported.history[k][2][v][1] <= reported.history[k][2][v][2]

\* an inconclusive result with a history of more than one round, the ranges
\* narrowing from round to round
C30_Witness ==
    /\ ~IsNone(stab)
    /\ EngineProof.tag = "SRInconclusive"
    /\ ~Unpacked.ProofProgression.stable
    /\ Len(Unpacked.ProofProgression.history) >= 2
    /\ Unpacked.ProofProgression.history[1][2] # Unpacked.ProofProgression.history[2][2]
    /\ Unpacked.ProofProgression.history[1][1] < Unpacked.ProofProgression.history[2][1]

(* ---- C27 ---- *)

Stepping == The(call)

\* clamp(eval(formula_v, state), range_v)
Target(q, v, state) ==
    Clamp(Eval(ParseFormula(NodeOf(q, v).f), state).v, NodeOf(q, v).lo, NodeOf(q, v).hi)

RECURSIVE References(_)
References(e) ==
    CASE e.op = "const" -> {}
      [] e.op = "var" -> {e.id}
      [] e.op \in {"neg", "ceil", "floor"} -> References(e.l)
      [] OTHER -> References(e.l) \cup References(e.r)

InputsOf(data, id) ==
    {data.Relationships[k].FromVariable :
        k \in {j \in DOMAIN data.Relationships : data.Relationships[j].ToVariable = id}}

\* ids 0..n-1 in list order, ranges from 0, formulas over declared inputs
RoundTripScope(data) ==
    \A k \in DOMAIN data.Variables :
        /\ data.Variables[k].Id = k - 1
        /\ data.Variables[k].RangeFrom = 0
        /\ References(ParseFormula(data.Variables[k].Formula)) \subseteq InputsOf(data, k - 1)

\* the file was written by the libsbml writer and read by the libsbml reader
RoundTripDone ==
    /\ ~IsNone(sbmlOut)
    /\ The(sbmlOut).op = "load_sbml_qual"
    /\ The(sbmlOut).result.called = "_load_with_libsbml"
    /\ The(sbmlFile).id = "model"

Recovered == The(The(sbmlOut).result.value).Model

\* the states of the truth table of variable id: its inputs anywhere in their
\* ranges, every other variable 0
TableStates(data, id) ==
    {s \in Box(DeclaredRanges(model_to_qn(data))) :
        \A v \in DOMAIN s : v \notin InputsOf(data, id) => s[v] = 0}

====
